---- MODULE Spec2Model ----
(***************************************************************************)
(* Model of the Vulkan back-end object caches of ANGLE                     *)
(* (src/libANGLE/renderer/vulkan/vk_cache_utils.h): GraphicsPipelineCache, *)
(* RenderPassCache, the per-pipeline transition list of PipelineHelper,    *)
(* the dirty bits of the GraphicsPipelineDesc mutators, the descriptor set *)
(* caches and the CacheStats counters.                                     *)
(*                                                                         *)
(* A GraphicsPipelineDesc is modelled by its byte image cut into 4-byte    *)
(* words (one word per dirty bit), a RenderPassDesc and an                 *)
(* AttachmentOpsArray by an opaque value compared bitwise.  Pointers into  *)
(* the node-based std::unordered_map are node addresses.                   *)
(***************************************************************************)
EXTENDS Integers, Sequences, FiniteSets, TLC

\* ------------------------------------------------------------------------
\* Bounds of the model.
\* ------------------------------------------------------------------------
\* Number of 4-byte words (dirty bits) of a modelled GraphicsPipelineDesc.
NumWords == 2
\* Largest value of a descriptor word; words range over 0..MaxWord.
MaxWord == 1
\* RenderPassDesc values are 0..MaxRenderPassDesc.
MaxRenderPassDesc == 1
\* AttachmentOpsArray values are 0..MaxAttachmentOps.
MaxAttachmentOps == 1
\* Number of calls in one run of the object caches.
MaxCalls == 3
\* Number of calls in one run of the pipeline cache with its transition lists.
MaxTransitionCalls == 5
\* Number of calls in one run of the descriptor mutators.
MaxDescCalls == 6
\* Line widths range over 0..MaxLineWidth.
MaxLineWidth == 1
\* Cull modes range over 0..MaxCullMode.
MaxCullMode == 1
\* Number of calls in one run of the descriptor set caches.
MaxDescriptorSetCalls == 4
\* Keys (serials, descriptors) of the descriptor set caches are 0..MaxDescriptorSetKey.
MaxDescriptorSetKey == 1
\* VkDescriptorSet handles are 1..MaxDescriptorSet.
MaxDescriptorSet == 2
\* Number of calls in one run of the CacheStats operations.
MaxStatsCalls == 6
\* Number of calls in one run of the lookups and reports of the caches.
MaxReportCalls == 5
\* Number of calls in one run of the RenderPassDesc operations.
MaxRenderPassDescCalls == 4
\* Attachment formats (angle::FormatID values other than NONE) are 1..MaxFormat.
MaxFormat == 2
\* Sample counts are 2^0 .. 2^MaxLogSamples.
MaxLogSamples == 1
\* Number of calls in one run of the scissor mutators.
MaxScissorCalls == 4
\* Scissor coordinates are 0..MaxScissor, next to the largest one below the sentinel.
MaxScissor == 1
\* Hash values are 0..MaxHash.
MaxHash == 4
\* Number of calls in one run of a cache of reference-counted objects.
MaxRefCountedCalls == 6
\* Keys of a cache of reference-counted objects are 0..MaxRefCountedDesc.
MaxRefCountedDesc == 1
\* Number of SetBitField stores in one run.
MaxSetBitFieldCalls == 2
\* Number of getPipeline calls the threads of one run start.
MaxThreadCalls == 3
\* Number of calls on the fence objects in one run.
MaxFenceCalls == 7
\* Number of UpdateAccess calls on one ResourceAccess variable.
MaxAccessCalls == 4
\* Number of calls on one UniformsAndXfbDescriptorDesc after its construction.
MaxUniformsCalls == 3
\* Valid BufferSerial values are 1..MaxBufferSerial.
MaxBufferSerial == 2
\* Buffer offsets are 0..MaxBufferOffset.
MaxBufferOffset == 1

\* nullptr / "no value" for pointers and for the fields of a call record
\* that an operation does not use.
Null == 0

DirtyBits == 0 .. (NumWords - 1)
GraphicsPipelineDesc == [DirtyBits -> 0 .. MaxWord]
GraphicsPipelineTransitionBits == SUBSET DirtyBits
RenderPassDesc == 0 .. MaxRenderPassDesc
AttachmentOpsArray == 0 .. MaxAttachmentOps

VARIABLES
    mPayload,                         \* GraphicsPipelineCache::mPayload: node address -> [first, second]
    mCacheStats,                      \* GraphicsPipelineCache's HasCacheStats::mCacheStats
    mRenderPassPayload,               \* RenderPassCache::mPayload: desc -> (ops -> render pass)
    mCompatibleRenderPassCacheStats,  \* RenderPassCache::mCompatibleRenderPassCacheStats
    mRenderPassWithOpsCacheStats,     \* RenderPassCache::mRenderPassWithOpsCacheStats
    descPtrOut,                       \* the caller's *descPtrOut
    pipelineOut,                      \* the caller's *pipelineOut
    renderPassOut,                    \* the caller's *renderPassOut
    pipelineFactoryCalls,             \* number of insertPipeline invocations
    pipelinesCreated,                 \* number of pipelines the factory created
    held,                             \* the pointers getPipeline returned, with what they designated then
    renderPassFactoryCalls,           \* number of render pass factory invocations
    renderPassesCreated,              \* number of render passes the factory created
    pipelineDescs,                    \* the GraphicsPipelineDesc objects constructed, among "A" and "B"
    transitions,                      \* the GraphicsPipelineTransitionBits the mutators of each report into
    updated,                          \* the fields updated on each of the two so far
    matched,                          \* result of the last GraphicsPipelineTransitionMatch
    descriptorSetCaches,              \* each descriptor set cache constructed: mPayload, mCacheStats, lifetime
    descriptorSetOut,                 \* the caller's *descriptorSet
    cacheStats,                       \* the CacheStats objects constructed: "S" of a cache, "T" of an aggregator
    totals,                           \* the aggregator's CacheStats of each descriptor set cache
    occurred,                         \* the hits and misses each descriptor set cache ever had
    objects,                          \* the other objects constructed: name -> members
    last                              \* record of the last operation called

vars == <<mPayload, mCacheStats, mRenderPassPayload, mCompatibleRenderPassCacheStats,
          mRenderPassWithOpsCacheStats, descPtrOut, pipelineOut, renderPassOut,
          pipelineFactoryCalls, pipelinesCreated, renderPassFactoryCalls,
          renderPassesCreated, held, pipelineDescs, transitions, updated, matched,
          descriptorSetCaches, descriptorSetOut, cacheStats, totals, occurred, objects, last>>

pipelineVars == <<mPayload, mCacheStats, descPtrOut, pipelineOut,
                  pipelineFactoryCalls, pipelinesCreated, held>>
renderPassVars == <<mRenderPassPayload, mCompatibleRenderPassCacheStats,
                    mRenderPassWithOpsCacheStats, renderPassOut,
                    renderPassFactoryCalls, renderPassesCreated>>
descVars == <<pipelineDescs, transitions, updated, matched>>
\* The variables of the components other than the two object caches.
descriptorSetVars == <<descriptorSetCaches, descriptorSetOut>>
statsVars == <<cacheStats, totals, occurred>>
componentVars == <<descVars, descriptorSetVars, statsVars, objects>>
cacheVars == <<pipelineVars, renderPassVars, descVars, descriptorSetVars, statsVars>>

\* ------------------------------------------------------------------------
\* CacheStats
\* ------------------------------------------------------------------------
\* CacheStats::reset(), also the state the constructor leaves.
reset == [mHitCount |-> 0, mMissCount |-> 0]

\* Faulty hit(): the hit is counted as a miss.
hitCountsMiss(stats) == [stats EXCEPT !.mMissCount = @ + 1]

\* CacheStats::hit()
hit(stats) == [stats EXCEPT !.mHitCount = @ + 1]

\* Faulty miss(): the miss is counted twice.
missCountsTwice(stats) == [stats EXCEPT !.mMissCount = @ + 2]

\* Faulty miss(): the miss is not counted.
missNotCounted(stats) == stats

\* Faulty miss(): the miss is counted as a hit.
missCountsHit(stats) == [stats EXCEPT !.mHitCount = @ + 1]

\* CacheStats::miss()
miss(stats) == [stats EXCEPT !.mMissCount = @ + 1]

\* Faulty accumulate: the counters of stats are assigned, not added.
accumulateAssigns(target, source) == source

\* Faulty accumulate: the hits are added to the misses and the misses to the
\* hits.
accumulateSwapped(target, source) ==
    [mHitCount |-> target.mHitCount + source.mMissCount,
     mMissCount |-> target.mMissCount + source.mHitCount]

\* CacheStats::accumulate(const CacheStats &stats) on the object target; the
\* argument is const and stays as it is.
accumulate(target, source) ==
    [mHitCount |-> target.mHitCount + source.mHitCount,
     mMissCount |-> target.mMissCount + source.mMissCount]

\* accumulateCacheStats(cacheType, stats) of the Accumulator: the stats are
\* accumulated in the total it keeps for the cache type.
AccumulatorAccumulateCacheStats(total, source) == accumulate(total, source)

\* Faulty accumulateCacheStats: the counters of the cache are not reset.
accumulateCacheStatsNoReset(accum, mStats) ==
    [accum |-> AccumulatorAccumulateCacheStats(accum, mStats), mCacheStats |-> mStats]

\* HasCacheStats::accumulateCacheStats: the counters are handed to the
\* accumulator and then reset.
accumulateCacheStats(accum, mStats) ==
    [accum |-> AccumulatorAccumulateCacheStats(accum, mStats), mCacheStats |-> reset]

\* The two CacheStats objects of the runs of the CacheStats operations.
StatsObjects == {"S", "T"}

\* ------------------------------------------------------------------------
\* Containers
\* ------------------------------------------------------------------------
\* An empty map (a function with an empty domain).
EmptyMap == [k \in {} |-> Null]

\* A map extended or overwritten at one key.
MapPut(map, key, value) ==
    [k \in (DOMAIN map) \cup {key} |-> IF k = key THEN value ELSE map[k]]

\* Faulty find: never finds a key.
findNothing(payload, desc) == {}

\* Faulty find: keys compared on their first word only.
findByFirstWord(payload, desc) == {item \in DOMAIN payload : payload[item].first[0] = desc[0]}

\* std::unordered_map<GraphicsPipelineDesc, PipelineHelper>::find: the nodes
\* whose key compares equal to desc (empty: end()).
find(payload, desc) == {item \in DOMAIN payload : payload[item].first = desc}

\* Faulty emplace: the new node evicts the nodes stored before.
emplaceEvicts(payload, addr, desc, helper) ==
    [item \in {addr} |-> [first |-> desc, second |-> helper]]

\* Faulty emplace: the insertion moves a node stored before to the new
\* address and puts the new node in its place.
emplaceMoves(payload, addr, desc, helper) ==
    IF find(payload, desc) # {}
    THEN payload
    ELSE IF DOMAIN payload = {}
         THEN MapPut(payload, addr, [first |-> desc, second |-> helper])
         ELSE LET moved == CHOOSE item \in DOMAIN payload : TRUE IN
                 MapPut(MapPut(payload, addr, payload[moved]), moved,
                        [first |-> desc, second |-> helper])

\* std::unordered_map::emplace: a new node at address addr unless a node
\* with an equal key exists; nodes already stored are never moved.
emplace(payload, addr, desc, helper) ==
    IF find(payload, desc) # {}
    THEN payload
    ELSE MapPut(payload, addr, [first |-> desc, second |-> helper])

\* Faulty begin(): the first render pass of any bucket, not of desc's.
beginOfAnyBucket(payload, desc) ==
    UNION {{payload[d][ops] : ops \in DOMAIN payload[d]} : d \in DOMAIN payload}

\* innerCache.begin()->second.getRenderPass() for the bucket of desc: the
\* first element of a hash map is whichever the hash order puts first, so
\* any render pass of that bucket.
begin(payload, desc) == {payload[desc][ops] : ops \in DOMAIN payload[desc]}

\* ------------------------------------------------------------------------
\* Transition list of a PipelineHelper
\* ------------------------------------------------------------------------
\* Faulty match: the whole descriptors are compared, not the flagged words.
GraphicsPipelineTransitionMatchFullCompare(bitsA, bitsB, descA, descB) ==
    IF bitsA # bitsB
    THEN FALSE
    ELSE descA = descB

\* Faulty match: the test of the two bit sets is missing.
GraphicsPipelineTransitionMatchNoBitsTest(bitsA, bitsB, descA, descB) ==
    \A dirtyBit \in bitsA : descA[dirtyBit] = descB[dirtyBit]

\* Faulty match: a recorded bit set contained in the probed one is accepted.
GraphicsPipelineTransitionMatchSubset(bitsA, bitsB, descA, descB) ==
    IF ~(bitsA \subseteq bitsB)
    THEN FALSE
    ELSE \A dirtyBit \in bitsA : descA[dirtyBit] = descB[dirtyBit]

\* Faulty match: the bit sets are compared, the flagged words are not.
GraphicsPipelineTransitionMatchBitsOnly(bitsA, bitsB, descA, descB) ==
    bitsA = bitsB

\* GraphicsPipelineTransitionMatch
GraphicsPipelineTransitionMatch(bitsA, bitsB, descA, descB) ==
    IF bitsA # bitsB
    THEN FALSE
    ELSE \A dirtyBit \in bitsA : descA[dirtyBit] = descB[dirtyBit]

\* The loop of PipelineHelper::findTransition from position i on;
\* transition.desc is a pointer to a key stored in payload.
RECURSIVE findTransitionFrom(_, _, _, _, _)
findTransitionFrom(payload, mTransitions, i, bits, desc) ==
    IF i > Len(mTransitions)
    THEN [found |-> FALSE, target |-> Null]
    ELSE IF GraphicsPipelineTransitionMatch(mTransitions[i].bits, bits,
                                            payload[mTransitions[i].desc].first, desc)
         THEN [found |-> TRUE, target |-> mTransitions[i].target]
         ELSE findTransitionFrom(payload, mTransitions, i + 1, bits, desc)

\* Faulty findTransition: the first transition is returned without a match.
findTransitionAny(payload, mTransitions, bits, desc) ==
    IF Len(mTransitions) = 0
    THEN [found |-> FALSE, target |-> Null]
    ELSE [found |-> TRUE, target |-> mTransitions[1].target]

\* Faulty findTransition: the list is searched from its end.
findTransitionNewestFirst(payload, mTransitions, bits, desc) ==
    LET matches == {i \in 1 .. Len(mTransitions) :
                       GraphicsPipelineTransitionMatch(mTransitions[i].bits, bits,
                                                       payload[mTransitions[i].desc].first, desc)}
    IN IF matches = {}
       THEN [found |-> FALSE, target |-> Null]
       ELSE [found |-> TRUE,
             target |-> mTransitions[CHOOSE i \in matches : \A j \in matches : j <= i].target]

\* PipelineHelper::findTransition
findTransition(payload, mTransitions, bits, desc) ==
    findTransitionFrom(payload, mTransitions, 1, bits, desc)

\* Faulty addTransition: a transition already recorded is not added again.
addTransitionDedup(mTransitions, bits, desc, pipeline) ==
    IF \E i \in 1 .. Len(mTransitions) :
          mTransitions[i] = [bits |-> bits, desc |-> desc, target |-> pipeline]
    THEN mTransitions
    ELSE Append(mTransitions, [bits |-> bits, desc |-> desc, target |-> pipeline])

\* PipelineHelper::addTransition: appends, no duplicate check.
addTransition(mTransitions, bits, desc, pipeline) ==
    Append(mTransitions, [bits |-> bits, desc |-> desc, target |-> pipeline])

\* ------------------------------------------------------------------------
\* Layout of GraphicsPipelineDesc and its mutators
\* ------------------------------------------------------------------------
\* Sizes in bytes of the members of GraphicsPipelineDesc, in declaration
\* order; the static_asserts make the layout free of padding.
kVertexInputAttributesSize == 96
kRenderPassDescSize == 12
kPackedRasterizationAndMultisampleStateSize == 32
kPackedDepthStencilStateSize == 20
kPackedInputAssemblyAndColorBlendStateSize == 56
\* sizeof(VkViewport): six floats
kViewportSize == 24
\* sizeof(PackedScissor): four uint16_t
kPackedScissorSize == 8
\* sizeof(PackedExtent): two uint16_t
kPackedExtentSize == 4
\* sizeof(float), the size of PackedRasterizationAndMultisampleStateInfo::lineWidth
kFloatSize == 4

\* A faulty layout: a descriptor that ends with one more uint16_t.
kGraphicsPipelineDescSumOfSizesUnaligned ==
    kVertexInputAttributesSize + kRenderPassDescSize +
    kPackedRasterizationAndMultisampleStateSize + kPackedDepthStencilStateSize +
    kPackedInputAssemblyAndColorBlendStateSize + kViewportSize + kPackedScissorSize +
    kPackedExtentSize + 2

kGraphicsPipelineDescSumOfSizes ==
    kVertexInputAttributesSize + kRenderPassDescSize +
    kPackedRasterizationAndMultisampleStateSize + kPackedDepthStencilStateSize +
    kPackedInputAssemblyAndColorBlendStateSize + kViewportSize + kPackedScissorSize +
    kPackedExtentSize

kGraphicsPipelineDirtyBitBytes == 4
kNumGraphicsPipelineDirtyBits ==
    kGraphicsPipelineDescSumOfSizes \div kGraphicsPipelineDirtyBitBytes

\* The dirty bits of the whole descriptor, and the descriptor as the array
\* of uint32_t that GraphicsPipelineTransitionMatch reads through getPtr.
PackedDirtyBits == 0 .. (kNumGraphicsPipelineDirtyBits - 1)
ZeroPipelineDesc == [dirtyBit \in PackedDirtyBits |-> 0]

\* The dirty bit that covers the byte at offset: bit i stands for the bytes
\* of the i-th uint32_t.
DirtyBitOfByte(offset) == offset \div kGraphicsPipelineDirtyBitBytes

\* offsetof(GraphicsPipelineDesc, mRasterizationAndMultisampleStateInfo)
RasterizationAndMultisampleStateOffset == kVertexInputAttributesSize + kRenderPassDescSize

\* Offset of mRasterizationAndMultisampleStateInfo.bits, the word of
\* RasterizationStateBits that holds cullMode: the first member.
RasterizationStateBitsOffset == RasterizationAndMultisampleStateOffset

\* Offset of mRasterizationAndMultisampleStateInfo.lineWidth: the last member.
LineWidthOffset ==
    RasterizationAndMultisampleStateOffset + kPackedRasterizationAndMultisampleStateSize
        - kFloatSize

\* Faulty updateLineWidth: the first word of the rasterization state is
\* flagged too.
updateLineWidthFlagsStruct(desc, transition, lineWidth) ==
    [desc |-> [desc EXCEPT ![DirtyBitOfByte(LineWidthOffset)] = lineWidth],
     transition |-> transition \cup {DirtyBitOfByte(RasterizationAndMultisampleStateOffset),
                                     DirtyBitOfByte(LineWidthOffset)}]

\* GraphicsPipelineDesc::updateLineWidth: stores the field and sets the
\* dirty bit of the bytes it wrote in *transition.
updateLineWidth(desc, transition, lineWidth) ==
    [desc |-> [desc EXCEPT ![DirtyBitOfByte(LineWidthOffset)] = lineWidth],
     transition |-> transition \cup {DirtyBitOfByte(LineWidthOffset)}]

\* GraphicsPipelineDesc::updateCullMode: stores the cullMode bit-field and
\* sets the dirty bit of the word it lies in.  The word of
\* RasterizationStateBits is modelled by the value of its cullMode field,
\* its other fields staying at zero.
updateCullMode(desc, transition, cullMode) ==
    [desc |-> [desc EXCEPT ![DirtyBitOfByte(RasterizationStateBitsOffset)] = cullMode],
     transition |-> transition \cup {DirtyBitOfByte(RasterizationStateBitsOffset)}]

\* memcmp of two descriptors from word dirtyBit up to word lastBit: equal
\* when no word differs.
RECURSIVE memcmpEqual(_, _, _, _)
memcmpEqual(descA, descB, dirtyBit, lastBit) ==
    IF dirtyBit > lastBit THEN TRUE
    ELSE IF descA[dirtyBit] # descB[dirtyBit] THEN FALSE
    ELSE memcmpEqual(descA, descB, dirtyBit + 1, lastBit)

\* operator== comparing the vertex input attributes and the render pass
\* descriptor only.
operatorEqualLeadingMembers(descA, descB) ==
    memcmpEqual(descA, descB, 0, DirtyBitOfByte(RasterizationAndMultisampleStateOffset) - 1)

\* GraphicsPipelineDesc::operator==: bitwise, over the whole byte image.
operatorEqual(descA, descB) ==
    memcmpEqual(descA, descB, 0, kNumGraphicsPipelineDirtyBits - 1)

\* The words firstBit..lastBit of the byte image summed, each weighted by
\* its position, halving the range.
RECURSIVE sumOfWords(_, _, _)
sumOfWords(key, firstBit, lastBit) ==
    IF firstBit = lastBit THEN key[firstBit] * (firstBit + 1)
    ELSE sumOfWords(key, firstBit, (firstBit + lastBit) \div 2)
            + sumOfWords(key, (firstBit + lastBit) \div 2 + 1, lastBit)

\* GraphicsPipelineDesc::hash: a hash over the whole byte image.
hash(key) == sumOfWords(key, 0, kNumGraphicsPipelineDirtyBits - 1) % (MaxHash + 1)

\* The packed scissor: four uint16_t fields x, y, width, height, two to a
\* 4-byte word, x and width in the low halves.
kUint16Range == 2 ^ 16
ScissorOffset ==
    kVertexInputAttributesSize + kRenderPassDescSize
        + kPackedRasterizationAndMultisampleStateSize + kPackedDepthStencilStateSize
        + kPackedInputAssemblyAndColorBlendStateSize + kViewportSize
\* The sentinel one below the largest value of the field.
kDynamicScissorSentinelBelowMax == kUint16Range - 2
\* std::numeric_limits<decltype(PackedScissor::x)>::max()
kDynamicScissorSentinel == kUint16Range - 1

\* The scissor rectangles given to the mutators: real coordinates, up to the
\* largest value of the x field that is not the sentinel.
ScissorRects ==
    [x : (0 .. MaxScissor) \cup {kUint16Range - 2}, y : 0 .. MaxScissor,
     width : {MaxScissor}, height : {MaxScissor}]

\* mScissor.x as stored in desc.
ScissorX(desc) == desc[DirtyBitOfByte(ScissorOffset)] % kUint16Range

\* GraphicsPipelineDesc::setScissor: the four fields of the rectangle.
setScissor(desc, scissor) ==
    [desc EXCEPT ![DirtyBitOfByte(ScissorOffset)] = scissor.x + kUint16Range * scissor.y,
                 ![DirtyBitOfByte(ScissorOffset) + 1] =
                     scissor.width + kUint16Range * scissor.height]

\* GraphicsPipelineDesc::updateScissor: setScissor, and the dirty bits of
\* the eight bytes written.
updateScissor(desc, transition, scissor) ==
    [desc |-> setScissor(desc, scissor),
     transition |-> transition \cup {DirtyBitOfByte(ScissorOffset),
                                     DirtyBitOfByte(ScissorOffset) + 1}]

\* GraphicsPipelineDesc::setDynamicScissor: x is the sentinel, the other
\* fields zero.
setDynamicScissor(desc) ==
    [desc EXCEPT ![DirtyBitOfByte(ScissorOffset)] = kDynamicScissorSentinel,
                 ![DirtyBitOfByte(ScissorOffset) + 1] = 0]

\* ------------------------------------------------------------------------
\* RenderPassDesc: packed attachment formats and flags
\* ------------------------------------------------------------------------
\* gl::IMPLEMENTATION_MAX_DRAW_BUFFERS: with it the three leading bytes and
\* the IMPLEMENTATION_MAX_DRAW_BUFFERS + 1 format bytes make the 12 bytes of
\* kRenderPassDescSize.
IMPLEMENTATION_MAX_DRAW_BUFFERS == 8
kMaxFramebufferNonResolveAttachments == IMPLEMENTATION_MAX_DRAW_BUFFERS + 1
\* angle::FormatID::NONE, the value a disabled slot stores.
FormatIDNONE == 0
kDepthStencilFormatStorageMask == 7
kIsRenderToTexture == 128
kResolveDepthStencilFlag == 64
kUnresolveDepthFlag == 32
kUnresolveStencilFlag == 16
kSrgbWriteControlFlag == 8

ColorIndexGL == 0 .. (IMPLEMENTATION_MAX_DRAW_BUFFERS - 1)
AttachmentIndex == 0 .. (kMaxFramebufferNonResolveAttachments - 1)
FormatID == 1 .. MaxFormat
RenderPassFlags == {kIsRenderToTexture, kResolveDepthStencilFlag, kUnresolveDepthFlag,
                    kUnresolveStencilFlag, kSrgbWriteControlFlag}

\* (byte & flag) != 0, byte | flag and byte & ~flag for a one-bit flag.
TestFlag(byte, flag) == (byte \div flag) % 2 = 1
SetFlag(byte, flag) == IF TestFlag(byte, flag) THEN byte ELSE byte + flag
ClearFlag(byte, flag) == IF TestFlag(byte, flag) THEN byte - flag ELSE byte
\* mAttachmentFormats.back()
back(mAttachmentFormats) == mAttachmentFormats[kMaxFramebufferNonResolveAttachments - 1]

\* RenderPassDesc::RenderPassDesc(): every byte zero.  packedGL is not a
\* member: it keeps, for each GL color index packed, what it was last packed as.
DefaultRenderPassDesc ==
    [mLogSamples |-> 0, mColorAttachmentRange |-> 0, mHasFramebufferFetch |-> FALSE,
     mColorResolveAttachmentMask |-> {}, mColorUnresolveAttachmentMask |-> {},
     mAttachmentFormats |-> [index \in AttachmentIndex |-> 0],
     packedGL |-> EmptyMap]

colorAttachmentRange(rp) == rp.mColorAttachmentRange
depthStencilAttachmentIndex(rp) == colorAttachmentRange(rp)
samples(rp) == 2 ^ rp.mLogSamples

\* RenderPassDesc::operator[]: the stored byte, without the flag bits from
\* the depth/stencil index on.
operatorIndex(rp, index) ==
    IF index >= depthStencilAttachmentIndex(rp)
    THEN rp.mAttachmentFormats[index] % (kDepthStencilFormatStorageMask + 1)
    ELSE rp.mAttachmentFormats[index]

isColorAttachmentEnabled(rp, colorIndexGL) == operatorIndex(rp, colorIndexGL) # FormatIDNONE
hasDepthStencilAttachment(rp) ==
    operatorIndex(rp, depthStencilAttachmentIndex(rp)) # FormatIDNONE
hasDepthStencilResolveAttachment(rp) ==
    TestFlag(back(rp.mAttachmentFormats), kResolveDepthStencilFlag)

\* attachmentCount counting every slot of the color range, gaps included.
attachmentCountWithGaps(rp) ==
    colorAttachmentRange(rp) + Cardinality(rp.mColorResolveAttachmentMask)
        + (IF hasDepthStencilAttachment(rp) THEN 1 ELSE 0)
        + (IF hasDepthStencilResolveAttachment(rp) THEN 1 ELSE 0)

\* RenderPassDesc::attachmentCount: the attachments of the render pass, the
\* disabled color slots removed.
attachmentCount(rp) ==
    Cardinality({colorIndexGL \in ColorIndexGL :
                    /\ colorIndexGL < colorAttachmentRange(rp)
                    /\ isColorAttachmentEnabled(rp, colorIndexGL)})
        + Cardinality(rp.mColorResolveAttachmentMask)
        + (IF hasDepthStencilAttachment(rp) THEN 1 ELSE 0)
        + (IF hasDepthStencilResolveAttachment(rp) THEN 1 ELSE 0)

\* packColorAttachment storing at the next packed index, not at the GL index.
packColorAttachmentAtRange(rp, colorIndexGL, formatID) ==
    [rp EXCEPT !.mAttachmentFormats[rp.mColorAttachmentRange] = formatID,
               !.mColorAttachmentRange = @ + 1,
               !.packedGL = MapPut(@, colorIndexGL, "enabled")]

\* RenderPassDesc::packColorAttachment: the format goes to the slot of the
\* GL index and the range grows to cover it.
packColorAttachment(rp, colorIndexGL, formatID) ==
    [rp EXCEPT !.mAttachmentFormats[colorIndexGL] = formatID,
               !.mColorAttachmentRange = IF colorIndexGL + 1 > @ THEN colorIndexGL + 1 ELSE @,
               !.packedGL = MapPut(@, colorIndexGL, "enabled")]

\* RenderPassDesc::packColorAttachmentGap: the slot of the GL index stores
\* NONE; no other byte is written.
packColorAttachmentGap(rp, colorIndexGL) ==
    [rp EXCEPT !.mAttachmentFormats[colorIndexGL] = FormatIDNONE,
               !.packedGL = MapPut(@, colorIndexGL, "gap")]

\* RenderPassDesc::packDepthStencilAttachment: the format goes to the three
\* format bits of the slot right after the color range.
packDepthStencilAttachment(rp, formatID) ==
    [rp EXCEPT !.mAttachmentFormats[depthStencilAttachmentIndex(rp)] =
                   (@ - (@ % (kDepthStencilFormatStorageMask + 1))) + formatID]

\* RenderPassDesc::setSamples: the sample count 2^logSamples is stored as its log.
setSamples(rp, logSamples) == [rp EXCEPT !.mLogSamples = logSamples]

\* A flag mutator storing its flag as the whole last byte.
setFlagOverwrites(rp, flag, value) ==
    [rp EXCEPT !.mAttachmentFormats[kMaxFramebufferNonResolveAttachments - 1] =
                   IF value THEN flag ELSE 0]

\* One flag of mAttachmentFormats.back() set or cleared.
setFlag(rp, flag, value) ==
    [rp EXCEPT !.mAttachmentFormats[kMaxFramebufferNonResolveAttachments - 1] =
                   IF value THEN SetFlag(@, flag) ELSE ClearFlag(@, flag)]

updateRenderToTexture(rp, isRenderToTexture) == setFlag(rp, kIsRenderToTexture, isRenderToTexture)
packDepthStencilResolveAttachment(rp) == setFlag(rp, kResolveDepthStencilFlag, TRUE)
packDepthStencilUnresolveAttachment(rp, unresolveDepth, unresolveStencil) ==
    LET depth == IF unresolveDepth THEN setFlag(rp, kUnresolveDepthFlag, TRUE) ELSE rp
    IN IF unresolveStencil THEN setFlag(depth, kUnresolveStencilFlag, TRUE) ELSE depth
removeDepthStencilUnresolveAttachment(rp) ==
    setFlag(setFlag(rp, kUnresolveDepthFlag, FALSE), kUnresolveStencilFlag, FALSE)
\* mode is TRUE for gl::SrgbWriteControlMode::Linear, FALSE for Default.
setWriteControlMode(rp, mode) == setFlag(rp, kSrgbWriteControlFlag, mode)

\* ------------------------------------------------------------------------
\* SetBitField and the fields of PackedAttribDesc
\* ------------------------------------------------------------------------
\* An integer type: its width and whether it is signed.
IntegerType(bits, signed) == [bits |-> bits, signed |-> signed]

\* The types of the fields of PackedAttribDesc whose width the header gives.
PackedAttribDescFields ==
    [format     |-> IntegerType(8, FALSE),
     divisor    |-> IntegerType(8, FALSE),
     compressed |-> IntegerType(1, FALSE),
     stride     |-> IntegerType(16, FALSE)]

\* The types of the values stored: a GL integer and a 16-bit unsigned.
GLint == IntegerType(32, TRUE)
uint16_t == IntegerType(16, FALSE)
RhsTypes == {GLint, uint16_t}

\* The largest and the smallest value of a type, computed without leaving
\* 32-bit signed arithmetic.
numeric_limits_max(type) ==
    IF type.signed THEN (2 ^ (type.bits - 2) - 1) * 2 + 1 ELSE 2 ^ type.bits - 1
numeric_limits_min(type) ==
    IF type.signed THEN 0 - numeric_limits_max(type) - 1 ELSE 0

\* A conversion that keeps every value.
staticCastKeepsValue(type, value) == value
\* static_cast to an integer type: a value of the type is kept, any other is
\* reduced modulo 2^bits into the range of the type.
staticCast(type, value) ==
    IF numeric_limits_min(type) <= value /\ value <= numeric_limits_max(type)
    THEN value
    ELSE IF type.signed
         THEN ((value + 2 ^ (type.bits - 1)) % (2 ^ type.bits)) - 2 ^ (type.bits - 1)
         ELSE value % (2 ^ type.bits)

\* SetBitField(lhs, rhs) for lhs of type lhsType and rhs of type rhsType: the
\* value left in lhs and whether the ASSERT holds.
SetBitField(lhsType, rhsType, rhs) ==
    LET ANGLE_LOCAL_VAR == rhs
        lhs == staticCast(lhsType, ANGLE_LOCAL_VAR)
    IN [lhs |-> lhs, asserted |-> staticCast(rhsType, lhs) = ANGLE_LOCAL_VAR]

\* Values of a type around the limits of the fields and of the type itself.
ValuesOf(type) ==
    {value \in {numeric_limits_min(type), numeric_limits_max(type), 0 - 1, 0, 1, 2, 3}
               \cup UNION {{numeric_limits_max(PackedAttribDescFields[field]) + by : by \in 0 .. 2}
                              : field \in DOMAIN PackedAttribDescFields}
        : numeric_limits_min(type) <= value /\ value <= numeric_limits_max(type)}

\* ------------------------------------------------------------------------
\* Caches of reference-counted objects: SamplerCache, DescriptorSetLayoutCache
\* and PipelineLayoutCache, which have one shape
\* ------------------------------------------------------------------------
RefCountedDescs == 0 .. MaxRefCountedDesc
\* The binding wrappers of the callers.
Bindings == {"bindingA", "bindingB"}

\* A new object that no reference counts.
newRefCountedUnowned == [mRefCount |-> 0, alive |-> TRUE]
\* A new object of the cache, counting the reference the cache owns.
newRefCounted == [mRefCount |-> 1, alive |-> TRUE]

\* One more reference to object handle.
addRef(handles, handle) == [handles EXCEPT ![handle].mRefCount = @ + 1]
\* One reference less; the native handle is destroyed when none is left.
releaseRef(handles, handle) ==
    [handles EXCEPT ![handle] = [mRefCount |-> @.mRefCount - 1,
                                 alive |-> @.alive /\ @.mRefCount - 1 > 0]]

\* releaseRef for each object of a set, one after the other.
RECURSIVE releaseAll(_, _)
releaseAll(handles, released) ==
    IF released = {} THEN handles
    ELSE LET handle == CHOOSE h \in released : TRUE
         IN releaseAll(releaseRef(handles, handle), released \ {handle})

\* BindingPointer::set: the binding lets go of what it referenced and
\* references handle.
bindingSet(cache, binding, handle) ==
    LET let_go == IF cache.bindings[binding] = Null THEN cache.handles
                  ELSE releaseRef(cache.handles, cache.bindings[binding])
    IN [cache EXCEPT !.handles = addRef(let_go, handle),
                     !.bindings[binding] = handle]

\* BindingPointer::reset
bindingReset(cache, binding) ==
    IF cache.bindings[binding] = Null THEN cache
    ELSE [cache EXCEPT !.handles = releaseRef(@, cache.bindings[binding]),
                       !.bindings[binding] = Null]

\* get of the three caches: the object stored under desc, created on a miss,
\* is handed out through the binding.
getRefCounted(cache, desc, binding) ==
    IF desc \in DOMAIN cache.mPayload
    THEN [bindingSet(cache, binding, cache.mPayload[desc])
             EXCEPT !.mCacheStats = hit(@)]
    ELSE LET handle == cache.created + 1
             inserted == [cache EXCEPT !.mPayload = MapPut(@, desc, handle),
                                       !.handles = MapPut(@, handle, newRefCounted),
                                       !.created = handle,
                                       !.mCacheStats = miss(@)]
         IN bindingSet(inserted, binding, handle)

\* destroy of the three caches: the cache drops its entries and the
\* reference it owns to each object.
destroyRefCounted(cache) ==
    [cache EXCEPT !.handles = releaseAll(@, {cache.mPayload[desc] : desc \in DOMAIN cache.mPayload}),
                  !.mPayload = EmptyMap]

\* ------------------------------------------------------------------------
\* Descriptor set caches
\* ------------------------------------------------------------------------
\* Faulty emplace: the descriptor set of a key that is present is replaced.
descriptorSetEmplaceOverwrites(payload, key, descriptorSet) == MapPut(payload, key, descriptorSet)

\* DescriptorSetCache::insert: mPayload.emplace, which keeps the descriptor
\* set of a key that is present.
descriptorSetEmplace(payload, key, descriptorSet) ==
    IF key \in DOMAIN payload THEN payload ELSE MapPut(payload, key, descriptorSet)

\* Faulty insert: nothing is stored.
descriptorSetInsertNothing(payload, serial, descriptorSet) == payload

\* DriverUniformsDescriptorSetCache::insert: FastIntegerMap::insert, which
\* stores the descriptor set at the serial.
descriptorSetInsert(payload, serial, descriptorSet) == MapPut(payload, serial, descriptorSet)

\* Faulty destructor: nothing is asserted.
destructorNoAssert(payload) == "none"

\* ~DescriptorSetCache / ~DriverUniformsDescriptorSetCache:
\* ASSERT(mPayload.empty()); "assert" is the assertion failing.
destructor(payload) == IF DOMAIN payload = {} THEN "none" ELSE "assert"

\* ------------------------------------------------------------------------
\* Factories
\* ------------------------------------------------------------------------
\* GraphicsPipelineCache::insertPipeline: creates the pipeline and stores it
\* under desc; a factory failure is returned and nothing is inserted.
insertPipeline(payload, created, desc, factoryOk) ==
    IF factoryOk
    THEN LET inserted == emplace(payload, created + 1, desc,
                                 [mPipeline |-> created + 1, mTransitions |-> <<>>])
         IN [status |-> "Continue",
             payload |-> inserted,
             item |-> IF created + 1 \in DOMAIN inserted
                      THEN created + 1
                      ELSE CHOOSE item \in DOMAIN inserted : inserted[item].first = desc,
             created |-> created + 1]
    ELSE [status |-> "Stop", payload |-> payload, item |-> Null, created |-> created]

\* Faulty insertion: the render pass goes into a fresh bucket that replaces
\* the bucket of desc.
insertRenderPassFreshBucket(payload, created, desc, ops, factoryOk) ==
    IF factoryOk
    THEN [status |-> "Continue",
          payload |-> MapPut(payload, desc, MapPut(EmptyMap, ops, created + 1)),
          renderPass |-> created + 1,
          created |-> created + 1]
    ELSE [status |-> "Stop", payload |-> payload, renderPass |-> Null, created |-> created]

\* Faulty insertion: the outer bucket of desc is created before the factory
\* runs and stays, empty, when the factory fails.
insertRenderPassBucketFirst(payload, created, desc, ops, factoryOk) ==
    LET bucket == IF desc \in DOMAIN payload THEN payload[desc] ELSE EmptyMap IN
    IF factoryOk
    THEN [status |-> "Continue",
          payload |-> MapPut(payload, desc, MapPut(bucket, ops, created + 1)),
          renderPass |-> created + 1,
          created |-> created + 1]
    ELSE [status |-> "Stop", payload |-> MapPut(payload, desc, bucket),
          renderPass |-> Null, created |-> created]

\* Creation of a render pass for (desc, ops) and its insertion in the
\* two-level map, reusing the outer bucket of desc when there is one; a
\* factory failure is returned and nothing is inserted.
insertRenderPass(payload, created, desc, ops, factoryOk) ==
    IF factoryOk
    THEN [status |-> "Continue",
          payload |-> MapPut(payload, desc,
                             MapPut(IF desc \in DOMAIN payload THEN payload[desc] ELSE EmptyMap,
                                    ops, created + 1)),
          renderPass |-> created + 1,
          created |-> created + 1]
    ELSE [status |-> "Stop", payload |-> payload, renderPass |-> Null, created |-> created]

\* The two descriptors handed to GraphicsPipelineTransitionMatch: "A" with
\* bitsA, "B" with bitsB.
DescSides == {"A", "B"}

\* The two descriptor set cache classes, one object of each.
DescriptorSetCaches == {"DescriptorSetCache", "DriverUniformsDescriptorSetCache"}
DescriptorSetKeys == 0 .. MaxDescriptorSetKey
VkDescriptorSet == 1 .. MaxDescriptorSet

\* ------------------------------------------------------------------------
\* Call records
\* ------------------------------------------------------------------------
\* The record of one call: its operation, its arguments (Null or {} for those
\* the operation does not take), "hit"/"miss" or "found"/"notfound" as the
\* result, and the angle::Result returned.
Call(op, desc, ops, bits, helper, target, result, status) ==
    [seq |-> last.seq + 1, op |-> op, desc |-> desc, ops |-> ops, bits |-> bits,
     helper |-> helper, target |-> target, result |-> result, status |-> status]

Init ==
    /\ mPayload = EmptyMap
    /\ mCacheStats = reset
    /\ mRenderPassPayload = EmptyMap
    /\ mCompatibleRenderPassCacheStats = reset
    /\ mRenderPassWithOpsCacheStats = reset
    /\ descPtrOut = Null
    /\ pipelineOut = Null
    /\ renderPassOut = Null
    /\ pipelineFactoryCalls = 0
    /\ pipelinesCreated = 0
    /\ renderPassFactoryCalls = 0
    /\ renderPassesCreated = 0
    /\ held = {}
    /\ pipelineDescs = EmptyMap
    /\ transitions = [side \in DescSides |-> {}]
    /\ updated = [side \in DescSides |-> {}]
    /\ matched = FALSE
    /\ descriptorSetCaches = EmptyMap
    /\ descriptorSetOut = Null
    /\ cacheStats = EmptyMap
    /\ totals = EmptyMap
    /\ occurred = EmptyMap
    /\ objects = EmptyMap
    /\ last = [seq |-> 0, op |-> "none", desc |-> Null, ops |-> Null, bits |-> {},
               helper |-> Null, target |-> Null, result |-> "none", status |-> "Continue"]

\* ------------------------------------------------------------------------
\* GraphicsPipelineCache
\* ------------------------------------------------------------------------
\* What the caller holds after getPipeline returned the pointers of node
\* item: *descPtrOut and *pipelineOut, with the descriptor value and the
\* pipeline of the helper they designate at that moment.
Held(payload, item) ==
    [descPtr |-> item, pipeline |-> item, desc |-> payload[item].first,
     mPipeline |-> payload[item].second.mPipeline]

\* GraphicsPipelineCache::getPipeline
GetPipeline(desc, factoryOk) ==
    /\ IF find(mPayload, desc) # {}
       THEN \E item \in find(mPayload, desc) :
               /\ descPtrOut' = item
               /\ pipelineOut' = item
               /\ mCacheStats' = hit(mCacheStats)
               /\ held' = held \cup {Held(mPayload, item)}
               /\ last' = Call("getPipeline", desc, Null, {}, Null, Null, "hit", "Continue")
               /\ UNCHANGED <<mPayload, pipelineFactoryCalls, pipelinesCreated>>
       ELSE LET r == insertPipeline(mPayload, pipelinesCreated, desc, factoryOk) IN
               /\ mCacheStats' = miss(mCacheStats)
               /\ pipelineFactoryCalls' = pipelineFactoryCalls + 1
               /\ mPayload' = r.payload
               /\ pipelinesCreated' = r.created
               /\ descPtrOut' = IF r.status = "Continue" THEN r.item ELSE descPtrOut
               /\ pipelineOut' = IF r.status = "Continue" THEN r.item ELSE pipelineOut
               /\ held' = IF r.status = "Continue"
                          THEN held \cup {Held(r.payload, r.item)}
                          ELSE held
               /\ last' = Call("getPipeline", desc, Null, {}, Null, Null, "miss", r.status)
    /\ UNCHANGED renderPassVars
    /\ UNCHANGED componentVars

\* GraphicsPipelineCache::destroy / release: full teardown of the cache.
DestroyPipelineCache ==
    /\ mPayload' = EmptyMap
    /\ held' = {}
    /\ last' = Call("destroyPipelineCache", Null, Null, {}, Null, Null, "none", "Continue")
    /\ UNCHANGED <<mCacheStats, descPtrOut, pipelineOut, pipelineFactoryCalls, pipelinesCreated>>
    /\ UNCHANGED renderPassVars
    /\ UNCHANGED componentVars

\* PipelineHelper::addTransition on the helper stored at node item, given a
\* key pointer and a helper pointer of the cache.
AddTransition(item, bits, desc, pipeline) ==
    /\ item \in DOMAIN mPayload
    /\ desc \in DOMAIN mPayload
    /\ pipeline \in DOMAIN mPayload
    /\ mPayload' = [mPayload EXCEPT ![item].second.mTransitions =
                        addTransition(@, bits, desc, pipeline)]
    /\ last' = Call("addTransition", desc, Null, bits, item, pipeline, "none", "Continue")
    /\ UNCHANGED <<mCacheStats, descPtrOut, pipelineOut, pipelineFactoryCalls, pipelinesCreated,
                   held>>
    /\ UNCHANGED renderPassVars
    /\ UNCHANGED componentVars

\* PipelineHelper::findTransition on the helper stored at node item.
FindTransition(item, bits, desc) ==
    /\ item \in DOMAIN mPayload
    /\ LET r == findTransition(mPayload, mPayload[item].second.mTransitions, bits, desc) IN
          /\ pipelineOut' = IF r.found THEN r.target ELSE pipelineOut
          /\ last' = Call("findTransition", desc, Null, bits, item, Null,
                          IF r.found THEN "found" ELSE "notfound", "Continue")
    /\ UNCHANGED <<mPayload, mCacheStats, descPtrOut, pipelineFactoryCalls, pipelinesCreated,
                   held>>
    /\ UNCHANGED renderPassVars
    /\ UNCHANGED componentVars

\* ------------------------------------------------------------------------
\* RenderPassCache
\* ------------------------------------------------------------------------
\* RenderPassCache::getCompatibleRenderPass; on a miss addRenderPass creates
\* a render pass with attachment ops of its own choosing (addOps).
GetCompatibleRenderPass(desc, addOps, factoryOk) ==
    /\ IF desc \in DOMAIN mRenderPassPayload
       THEN IF DOMAIN mRenderPassPayload[desc] = {}
            THEN \* ASSERT(!innerCache.empty()) fails
                 /\ last' = Call("getCompatibleRenderPass", desc, Null, {}, Null, Null,
                                 "assert", "Stop")
                 /\ UNCHANGED <<mRenderPassPayload, mCompatibleRenderPassCacheStats,
                                renderPassOut, renderPassFactoryCalls, renderPassesCreated>>
            ELSE \E renderPass \in begin(mRenderPassPayload, desc) :
                    /\ renderPassOut' = renderPass
                    /\ mCompatibleRenderPassCacheStats' = hit(mCompatibleRenderPassCacheStats)
                    /\ last' = Call("getCompatibleRenderPass", desc, Null, {}, Null, Null,
                                    "hit", "Continue")
                    /\ UNCHANGED <<mRenderPassPayload, renderPassFactoryCalls,
                                   renderPassesCreated>>
       ELSE LET r == insertRenderPass(mRenderPassPayload, renderPassesCreated, desc, addOps,
                                      factoryOk) IN
               /\ mCompatibleRenderPassCacheStats' = miss(mCompatibleRenderPassCacheStats)
               /\ renderPassFactoryCalls' = renderPassFactoryCalls + 1
               /\ mRenderPassPayload' = r.payload
               /\ renderPassesCreated' = r.created
               /\ renderPassOut' = IF r.status = "Continue" THEN r.renderPass ELSE renderPassOut
               /\ last' = Call("getCompatibleRenderPass", desc, Null, {}, Null, Null, "miss", r.status)
    /\ UNCHANGED mRenderPassWithOpsCacheStats
    /\ UNCHANGED pipelineVars
    /\ UNCHANGED componentVars

\* RenderPassCache::getRenderPassWithOps
GetRenderPassWithOps(desc, attachmentOps, factoryOk) ==
    /\ IF desc \in DOMAIN mRenderPassPayload /\ attachmentOps \in DOMAIN mRenderPassPayload[desc]
       THEN /\ renderPassOut' = mRenderPassPayload[desc][attachmentOps]
            /\ mRenderPassWithOpsCacheStats' = hit(mRenderPassWithOpsCacheStats)
            /\ last' = Call("getRenderPassWithOps", desc, attachmentOps, {}, Null, Null, "hit", "Continue")
            /\ UNCHANGED <<mRenderPassPayload, renderPassFactoryCalls, renderPassesCreated>>
       ELSE LET r == insertRenderPass(mRenderPassPayload, renderPassesCreated, desc,
                                      attachmentOps, factoryOk) IN
               /\ mRenderPassWithOpsCacheStats' = miss(mRenderPassWithOpsCacheStats)
               /\ renderPassFactoryCalls' = renderPassFactoryCalls + 1
               /\ mRenderPassPayload' = r.payload
               /\ renderPassesCreated' = r.created
               /\ renderPassOut' = IF r.status = "Continue" THEN r.renderPass ELSE renderPassOut
               /\ last' = Call("getRenderPassWithOps", desc, attachmentOps, {}, Null, Null, "miss",
                               r.status)
    /\ UNCHANGED mCompatibleRenderPassCacheStats
    /\ UNCHANGED pipelineVars
    /\ UNCHANGED componentVars

\* RenderPassCache::destroy: full teardown of the cache.
DestroyRenderPassCache ==
    /\ mRenderPassPayload' = EmptyMap
    /\ last' = Call("destroyRenderPassCache", Null, Null, {}, Null, Null, "none", "Continue")
    /\ UNCHANGED <<mCompatibleRenderPassCacheStats, mRenderPassWithOpsCacheStats, renderPassOut,
                   renderPassFactoryCalls, renderPassesCreated>>
    /\ UNCHANGED pipelineVars
    /\ UNCHANGED componentVars

\* ------------------------------------------------------------------------
\* GraphicsPipelineDesc mutators
\* ------------------------------------------------------------------------
\* GraphicsPipelineDesc::GraphicsPipelineDesc() for descriptor side.
ConstructPipelineDesc(side) ==
    /\ side \notin DOMAIN pipelineDescs
    /\ pipelineDescs' = MapPut(pipelineDescs, side, ZeroPipelineDesc)
    /\ last' = Call("GraphicsPipelineDesc", Null, Null, {}, side, Null, "none", "Continue")
    /\ UNCHANGED <<transitions, updated, matched>>
    /\ UNCHANGED <<pipelineVars, renderPassVars, descriptorSetVars, statsVars>>
    /\ UNCHANGED objects

\* GraphicsPipelineDesc::updateLineWidth on descriptor side, reporting into
\* the transition bits of that side.
UpdateLineWidth(side, lineWidth) ==
    /\ side \in DOMAIN pipelineDescs
    /\ LET r == updateLineWidth(pipelineDescs[side], transitions[side], lineWidth) IN
          /\ pipelineDescs' = [pipelineDescs EXCEPT ![side] = r.desc]
          /\ transitions' = [transitions EXCEPT ![side] = r.transition]
    /\ updated' = [updated EXCEPT ![side] = @ \cup {"lineWidth"}]
    /\ last' = Call("updateLineWidth", Null, Null, {}, side, lineWidth, "none", "Continue")
    /\ UNCHANGED matched
    /\ UNCHANGED <<pipelineVars, renderPassVars, descriptorSetVars, statsVars>>
    /\ UNCHANGED objects

\* GraphicsPipelineDesc::updateCullMode on descriptor side.
UpdateCullMode(side, cullMode) ==
    /\ side \in DOMAIN pipelineDescs
    /\ LET r == updateCullMode(pipelineDescs[side], transitions[side], cullMode) IN
          /\ pipelineDescs' = [pipelineDescs EXCEPT ![side] = r.desc]
          /\ transitions' = [transitions EXCEPT ![side] = r.transition]
    /\ updated' = [updated EXCEPT ![side] = @ \cup {"cullMode"}]
    /\ last' = Call("updateCullMode", Null, Null, {}, side, cullMode, "none", "Continue")
    /\ UNCHANGED matched
    /\ UNCHANGED <<pipelineVars, renderPassVars, descriptorSetVars, statsVars>>
    /\ UNCHANGED objects

SetScissor(side, scissor) ==
    /\ side \in DOMAIN pipelineDescs
    /\ pipelineDescs' = [pipelineDescs EXCEPT ![side] = setScissor(@, scissor)]
    /\ last' = Call("setScissor", scissor, Null, {}, side, Null, "none", "Continue")
    /\ UNCHANGED <<transitions, updated, matched>>
    /\ UNCHANGED <<pipelineVars, renderPassVars, descriptorSetVars, statsVars>>
    /\ UNCHANGED objects

UpdateScissor(side, scissor) ==
    /\ side \in DOMAIN pipelineDescs
    /\ LET r == updateScissor(pipelineDescs[side], transitions[side], scissor) IN
          /\ pipelineDescs' = [pipelineDescs EXCEPT ![side] = r.desc]
          /\ transitions' = [transitions EXCEPT ![side] = r.transition]
    /\ updated' = [updated EXCEPT ![side] = @ \cup {"scissor"}]
    /\ last' = Call("updateScissor", scissor, Null, {}, side, Null, "none", "Continue")
    /\ UNCHANGED matched
    /\ UNCHANGED <<pipelineVars, renderPassVars, descriptorSetVars, statsVars>>
    /\ UNCHANGED objects

SetDynamicScissor(side) ==
    /\ side \in DOMAIN pipelineDescs
    /\ pipelineDescs' = [pipelineDescs EXCEPT ![side] = setDynamicScissor(@)]
    /\ last' = Call("setDynamicScissor", Null, Null, {}, side, Null, "none", "Continue")
    /\ UNCHANGED <<transitions, updated, matched>>
    /\ UNCHANGED <<pipelineVars, renderPassVars, descriptorSetVars, statsVars>>
    /\ UNCHANGED objects

\* GraphicsPipelineTransitionMatch applied to the two descriptors and their
\* transition bits.
Match ==
    /\ DOMAIN pipelineDescs = DescSides
    /\ matched' = GraphicsPipelineTransitionMatch(transitions["A"], transitions["B"],
                                                  pipelineDescs["A"], pipelineDescs["B"])
    /\ last' = Call("match", Null, Null, {}, Null, Null, "none", "Continue")
    /\ UNCHANGED <<pipelineDescs, transitions, updated>>
    /\ UNCHANGED <<pipelineVars, renderPassVars, descriptorSetVars, statsVars>>
    /\ UNCHANGED objects

\* operator== and std::hash applied to the two descriptors: the call record
\* keeps the two hashes and the result of the comparison.
Compare ==
    /\ DOMAIN pipelineDescs = DescSides
    /\ last' = Call("operator==", hash(pipelineDescs["A"]), hash(pipelineDescs["B"]), {},
                    Null, Null,
                    IF operatorEqual(pipelineDescs["A"], pipelineDescs["B"])
                    THEN "equal" ELSE "different",
                    "Continue")
    /\ UNCHANGED <<pipelineDescs, transitions, updated, matched>>
    /\ UNCHANGED <<pipelineVars, renderPassVars, descriptorSetVars, statsVars>>
    /\ UNCHANGED objects

\* ------------------------------------------------------------------------
\* DescriptorSetCache and DriverUniformsDescriptorSetCache
\* ------------------------------------------------------------------------
\* The cache object can be called: it is constructed and not destructed, and
\* no assertion has stopped the program.
Callable(cache) ==
    /\ cache \in DOMAIN descriptorSetCaches
    /\ descriptorSetCaches[cache].lifetime = "alive"
    /\ \A other \in DOMAIN descriptorSetCaches :
          descriptorSetCaches[other].lifetime # "aborted"

\* The default constructor of either class: no entry, counters at zero.  The
\* accumulator's total of the cache type starts at zero as well.
ConstructDescriptorSetCache(cache) ==
    /\ cache \notin DOMAIN descriptorSetCaches
    /\ \A other \in DOMAIN descriptorSetCaches :
          descriptorSetCaches[other].lifetime # "aborted"
    /\ descriptorSetCaches' =
          MapPut(descriptorSetCaches, cache,
                 [mPayload |-> EmptyMap, mCacheStats |-> reset, lifetime |-> "alive"])
    /\ totals' = MapPut(totals, cache, reset)
    /\ occurred' = MapPut(occurred, cache, reset)
    /\ last' = Call("DescriptorSetCache", Null, Null, {}, cache, Null, "none", "Continue")
    /\ UNCHANGED <<descriptorSetOut, cacheStats>>
    /\ UNCHANGED <<pipelineVars, renderPassVars, descVars>>
    /\ UNCHANGED objects

\* get(desc / serial, descriptorSet) of either class.
DescriptorSetGet(cache, key) ==
    /\ Callable(cache)
    /\ IF key \in DOMAIN descriptorSetCaches[cache].mPayload
       THEN /\ descriptorSetOut' = descriptorSetCaches[cache].mPayload[key]
            /\ descriptorSetCaches' = [descriptorSetCaches EXCEPT ![cache].mCacheStats = hit(@)]
            /\ occurred' = [occurred EXCEPT ![cache].mHitCount = @ + 1]
            /\ last' = Call("get", key, Null, {}, cache, Null, "hit", "Continue")
       ELSE /\ descriptorSetOut' = descriptorSetOut
            /\ descriptorSetCaches' = [descriptorSetCaches EXCEPT ![cache].mCacheStats = miss(@)]
            /\ occurred' = [occurred EXCEPT ![cache].mMissCount = @ + 1]
            /\ last' = Call("get", key, Null, {}, cache, Null, "miss", "Continue")
    /\ UNCHANGED <<pipelineVars, renderPassVars, descVars, cacheStats, totals>>
    /\ UNCHANGED objects

\* insert(desc / serial, descriptorSet) of either class.
DescriptorSetInsert(cache, key, descriptorSet) ==
    /\ Callable(cache)
    /\ descriptorSetCaches' =
          [descriptorSetCaches EXCEPT ![cache].mPayload =
              IF cache = "DescriptorSetCache"
              THEN descriptorSetEmplace(@, key, descriptorSet)
              ELSE descriptorSetInsert(@, key, descriptorSet)]
    /\ last' = Call("insert", key, Null, {}, cache, descriptorSet, "none", "Continue")
    /\ UNCHANGED descriptorSetOut
    /\ UNCHANGED <<pipelineVars, renderPassVars, descVars, statsVars>>
    /\ UNCHANGED objects

\* DriverUniformsDescriptorSetCache::clear
DescriptorSetClear(cache) ==
    /\ cache = "DriverUniformsDescriptorSetCache"
    /\ Callable(cache)
    /\ descriptorSetCaches' = [descriptorSetCaches EXCEPT ![cache].mPayload = EmptyMap]
    /\ last' = Call("clear", Null, Null, {}, cache, Null, "none", "Continue")
    /\ UNCHANGED descriptorSetOut
    /\ UNCHANGED <<pipelineVars, renderPassVars, descVars, statsVars>>
    /\ UNCHANGED objects

\* destroy(rendererVk) of either class: the entries are dropped.
DescriptorSetDestroy(cache) ==
    /\ Callable(cache)
    /\ descriptorSetCaches' = [descriptorSetCaches EXCEPT ![cache].mPayload = EmptyMap]
    /\ last' = Call("destroy", Null, Null, {}, cache, Null, "none", "Continue")
    /\ UNCHANGED descriptorSetOut
    /\ UNCHANGED <<pipelineVars, renderPassVars, descVars, statsVars>>
    /\ UNCHANGED objects

\* The destructor of either class; a failing ASSERT stops the program.
DescriptorSetDestructor(cache) ==
    /\ Callable(cache)
    /\ LET outcome == destructor(descriptorSetCaches[cache].mPayload) IN
          /\ descriptorSetCaches' =
                [descriptorSetCaches EXCEPT ![cache].lifetime =
                    IF outcome = "assert" THEN "aborted" ELSE "destructed"]
          /\ last' = Call("destructor", Null, Null, {}, cache, Null, outcome,
                          IF outcome = "assert" THEN "Stop" ELSE "Continue")
    /\ UNCHANGED descriptorSetOut
    /\ UNCHANGED <<pipelineVars, renderPassVars, descVars, statsVars>>
    /\ UNCHANGED objects

\* HasCacheStats::accumulateCacheStats of a descriptor set cache, reporting
\* to the accumulator's total of its cache type.
AccumulateCacheStats(cache) ==
    /\ Callable(cache)
    /\ LET r == accumulateCacheStats(totals[cache], descriptorSetCaches[cache].mCacheStats) IN
          /\ totals' = [totals EXCEPT ![cache] = r.accum]
          /\ descriptorSetCaches' = [descriptorSetCaches EXCEPT ![cache].mCacheStats =
                                        r.mCacheStats]
    /\ last' = Call("accumulateCacheStats", Null, Null, {}, cache, Null, "none", "Continue")
    /\ UNCHANGED <<descriptorSetOut, cacheStats, occurred>>
    /\ UNCHANGED <<pipelineVars, renderPassVars, descVars>>
    /\ UNCHANGED objects

\* ------------------------------------------------------------------------
\* CacheStats
\* ------------------------------------------------------------------------
\* CacheStats::CacheStats() for object
ConstructStats(object) ==
    /\ object \notin DOMAIN cacheStats
    /\ cacheStats' = MapPut(cacheStats, object, reset)
    /\ last' = Call("CacheStats", Null, Null, {}, object, Null, "none", "Continue")
    /\ UNCHANGED <<totals, occurred>>
    /\ UNCHANGED <<pipelineVars, renderPassVars, descVars, descriptorSetVars>>
    /\ UNCHANGED objects

\* CacheStats::hit on object
StatsHit(object) ==
    /\ object \in DOMAIN cacheStats
    /\ cacheStats' = [cacheStats EXCEPT ![object] = hit(@)]
    /\ last' = Call("hit", Null, Null, {}, object, Null, "none", "Continue")
    /\ UNCHANGED <<totals, occurred>>
    /\ UNCHANGED <<pipelineVars, renderPassVars, descVars, descriptorSetVars>>
    /\ UNCHANGED objects

\* CacheStats::miss on object
StatsMiss(object) ==
    /\ object \in DOMAIN cacheStats
    /\ cacheStats' = [cacheStats EXCEPT ![object] = miss(@)]
    /\ last' = Call("miss", Null, Null, {}, object, Null, "none", "Continue")
    /\ UNCHANGED <<totals, occurred>>
    /\ UNCHANGED <<pipelineVars, renderPassVars, descVars, descriptorSetVars>>
    /\ UNCHANGED objects

\* CacheStats::accumulate on object, with source as its argument.
StatsAccumulate(object, source) ==
    /\ {object, source} \subseteq DOMAIN cacheStats
    /\ cacheStats' = [cacheStats EXCEPT ![object] = accumulate(@, cacheStats[source])]
    /\ last' = Call("accumulate", Null, Null, {}, object, source, "none", "Continue")
    /\ UNCHANGED <<totals, occurred>>
    /\ UNCHANGED <<pipelineVars, renderPassVars, descVars, descriptorSetVars>>
    /\ UNCHANGED objects

\* CacheStats::reset on object
StatsReset(object) ==
    /\ object \in DOMAIN cacheStats
    /\ cacheStats' = [cacheStats EXCEPT ![object] = reset]
    /\ last' = Call("reset", Null, Null, {}, object, Null, "none", "Continue")
    /\ UNCHANGED <<totals, occurred>>
    /\ UNCHANGED <<pipelineVars, renderPassVars, descVars, descriptorSetVars>>
    /\ UNCHANGED objects

\* HasCacheStats::accumulateCacheStats of the cache whose counters are "S",
\* with the owner of "T" as accumulator.
StatsAccumulateCacheStats ==
    /\ {"S", "T"} \subseteq DOMAIN cacheStats
    /\ LET r == accumulateCacheStats(cacheStats["T"], cacheStats["S"]) IN
          cacheStats' = [cacheStats EXCEPT !["T"] = r.accum, !["S"] = r.mCacheStats]
    /\ last' = Call("accumulateCacheStats", Null, Null, {}, "S", "T", "none", "Continue")
    /\ UNCHANGED <<totals, occurred>>
    /\ UNCHANGED <<pipelineVars, renderPassVars, descVars, descriptorSetVars>>
    /\ UNCHANGED objects

\* ------------------------------------------------------------------------
\* Actions on a RenderPassDesc
\* ------------------------------------------------------------------------
\* A call op(index, value) that leaves the RenderPassDesc as rp.
RenderPassDescCall(op, index, value, rp) ==
    /\ objects' = MapPut(objects, "renderPassDesc", rp)
    /\ last' = Call(op, index, Null, {}, "renderPassDesc", value, "none", "Continue")
    /\ UNCHANGED cacheVars

ConstructRenderPassDesc ==
    /\ "renderPassDesc" \notin DOMAIN objects
    /\ RenderPassDescCall("RenderPassDesc", Null, Null, DefaultRenderPassDesc)

\* The caller packs the depth/stencil attachment last: the color attachments
\* and the gaps are packed while there is none.
PackColorAttachment(colorIndexGL, formatID) ==
    /\ "renderPassDesc" \in DOMAIN objects
    /\ ~hasDepthStencilAttachment(objects["renderPassDesc"])
    /\ RenderPassDescCall("packColorAttachment", colorIndexGL, formatID,
                          packColorAttachment(objects["renderPassDesc"], colorIndexGL, formatID))

PackColorAttachmentGap(colorIndexGL) ==
    /\ "renderPassDesc" \in DOMAIN objects
    /\ ~hasDepthStencilAttachment(objects["renderPassDesc"])
    /\ RenderPassDescCall("packColorAttachmentGap", colorIndexGL, Null,
                          packColorAttachmentGap(objects["renderPassDesc"], colorIndexGL))

PackDepthStencilAttachment(formatID) ==
    /\ "renderPassDesc" \in DOMAIN objects
    /\ RenderPassDescCall("packDepthStencilAttachment", Null, formatID,
                          packDepthStencilAttachment(objects["renderPassDesc"], formatID))

SetSamples(logSamples) ==
    /\ "renderPassDesc" \in DOMAIN objects
    /\ RenderPassDescCall("setSamples", Null, logSamples,
                          setSamples(objects["renderPassDesc"], logSamples))

UpdateRenderToTexture(isRenderToTexture) ==
    /\ "renderPassDesc" \in DOMAIN objects
    /\ RenderPassDescCall("updateRenderToTexture", Null, isRenderToTexture,
                          updateRenderToTexture(objects["renderPassDesc"], isRenderToTexture))

PackDepthStencilResolveAttachment ==
    /\ "renderPassDesc" \in DOMAIN objects
    /\ RenderPassDescCall("packDepthStencilResolveAttachment", Null, Null,
                          packDepthStencilResolveAttachment(objects["renderPassDesc"]))

PackDepthStencilUnresolveAttachment(unresolveDepth, unresolveStencil) ==
    /\ "renderPassDesc" \in DOMAIN objects
    /\ RenderPassDescCall("packDepthStencilUnresolveAttachment", unresolveDepth,
                          unresolveStencil,
                          packDepthStencilUnresolveAttachment(objects["renderPassDesc"],
                                                              unresolveDepth, unresolveStencil))

RemoveDepthStencilUnresolveAttachment ==
    /\ "renderPassDesc" \in DOMAIN objects
    /\ RenderPassDescCall("removeDepthStencilUnresolveAttachment", Null, Null,
                          removeDepthStencilUnresolveAttachment(objects["renderPassDesc"]))

SetWriteControlMode(mode) ==
    /\ "renderPassDesc" \in DOMAIN objects
    /\ RenderPassDescCall("setWriteControlMode", Null, mode,
                          setWriteControlMode(objects["renderPassDesc"], mode))

\* ------------------------------------------------------------------------
\* FenceNV and Sync with the mock implementations of their tests
\* ------------------------------------------------------------------------
\* A faulty mock destructor that does not call destroy().
MockDestructorWithoutDestroy(destroyCalls) == destroyCalls
\* ~MockFenceNVImpl() and ~MockSyncImpl(): destroy() is called.
MockDestructor(destroyCalls) == destroyCalls + 1

\* new gl::FenceNV(impl), with the number of destroy() calls its
\* implementation has seen and the caller's variable out.
newFenceNV == [mIsSet |-> FALSE, deleted |-> FALSE, destroyCalls |-> 0, out |-> FALSE]

\* A faulty set that leaves the fence unset.
FenceNV_setLeavesUnset(fence, result) == fence
\* FenceNV::set, given what the implementation returned.
FenceNV_set(fence, result) ==
    IF result = "Continue" THEN [fence EXCEPT !.mIsSet = TRUE] ELSE fence

\* FenceNV::test(context, &out), given the status the implementation reports.
FenceNV_test(fence, status) == [fence EXCEPT !.out = status]

\* delete fence: the fence deletes its implementation.
FenceNV_delete(fence) ==
    [fence EXCEPT !.deleted = TRUE, !.destroyCalls = MockDestructor(@)]

\* new gl::Sync(impl, id): no reference is counted yet.
newSync == [mRefCount |-> 0, deleted |-> FALSE, destroyCalls |-> 0]

\* Sync::addRef
Sync_addRef(sync) == [sync EXCEPT !.mRefCount = @ + 1]

\* Sync::release: the release of the last reference deletes the object,
\* which deletes its implementation.
Sync_release(sync) ==
    IF sync.mRefCount - 1 = 0
    THEN [sync EXCEPT !.mRefCount = 0, !.deleted = TRUE,
                      !.destroyCalls = MockDestructor(@)]
    ELSE [sync EXCEPT !.mRefCount = @ - 1]

\* A call op on the fence object name that leaves it as object; status is
\* what the mock implementation was told to report.
FenceCall(op, name, status, object) ==
    /\ objects' = MapPut(objects, name, object)
    /\ last' = Call(op, status, Null, {}, name, Null, "none", "Continue")
    /\ UNCHANGED cacheVars

\* A fence object that exists and was not deleted.
Alive(name) == name \in DOMAIN objects /\ ~objects[name].deleted

NewFenceNV ==
    /\ "fenceNV" \notin DOMAIN objects
    /\ FenceCall("FenceNV", "fenceNV", Null, newFenceNV)

\* mFence->set(nullptr, GL_ALL_COMPLETED_NV); the mock returns Continue.
SetFenceNV ==
    /\ Alive("fenceNV")
    /\ FenceCall("set", "fenceNV", Null, FenceNV_set(objects["fenceNV"], "Continue"))

\* mFence->test(nullptr, &out); the mock reports status.
TestFenceNV(status) ==
    /\ Alive("fenceNV")
    /\ FenceCall("test", "fenceNV", status, FenceNV_test(objects["fenceNV"], status))

DeleteFenceNV ==
    /\ Alive("fenceNV")
    /\ FenceCall("delete", "fenceNV", Null, FenceNV_delete(objects["fenceNV"]))

NewSync ==
    /\ "sync" \notin DOMAIN objects
    /\ FenceCall("Sync", "sync", Null, newSync)

AddRefSync ==
    /\ Alive("sync")
    /\ FenceCall("addRef", "sync", Null, Sync_addRef(objects["sync"]))

ReleaseSync ==
    /\ Alive("sync")
    /\ objects["sync"].mRefCount > 0
    /\ FenceCall("release", "sync", Null, Sync_release(objects["sync"]))

\* ------------------------------------------------------------------------
\* Actions on a cache of reference-counted objects
\* ------------------------------------------------------------------------
\* A call op(desc, binding) that leaves the cache as cache.
RefCountedCall(op, desc, binding, cache) ==
    /\ objects' = MapPut(objects, "refCountedCache", cache)
    /\ last' = Call(op, desc, Null, {}, binding, Null, "none", "Continue")
    /\ UNCHANGED cacheVars

ConstructRefCountedCache ==
    /\ "refCountedCache" \notin DOMAIN objects
    /\ RefCountedCall("SamplerCache", Null, Null,
                      [mPayload |-> EmptyMap, mCacheStats |-> reset, created |-> 0,
                       handles |-> EmptyMap, bindings |-> [binding \in Bindings |-> Null]])

GetRefCounted(desc, binding) ==
    /\ "refCountedCache" \in DOMAIN objects
    /\ RefCountedCall("getSampler", desc, binding,
                      getRefCounted(objects["refCountedCache"], desc, binding))

BindingReset(binding) ==
    /\ "refCountedCache" \in DOMAIN objects
    /\ RefCountedCall("reset", Null, binding,
                      bindingReset(objects["refCountedCache"], binding))

DestroyRefCountedCache ==
    /\ "refCountedCache" \in DOMAIN objects
    /\ RefCountedCall("destroy", Null, Null, destroyRefCounted(objects["refCountedCache"]))

\* ------------------------------------------------------------------------
\* Actions on a PackedAttribDesc
\* ------------------------------------------------------------------------
ConstructPackedAttribDesc ==
    /\ "packedAttribDesc" \notin DOMAIN objects
    /\ objects' = MapPut(objects, "packedAttribDesc",
                         [field \in DOMAIN PackedAttribDescFields |-> 0])
    /\ last' = Call("PackedAttribDesc", Null, Null, {}, Null, Null, "none", "Continue")
    /\ UNCHANGED cacheVars

\* SetBitField(attrib.field, value) with value of type rhsType.
StoreBitField(field, rhsType, value) ==
    /\ "packedAttribDesc" \in DOMAIN objects
    /\ LET stored == SetBitField(PackedAttribDescFields[field], rhsType, value) IN
          /\ objects' = [objects EXCEPT !["packedAttribDesc"][field] = stored.lhs]
          /\ last' = Call("SetBitField", value, rhsType, {}, field, Null,
                          IF stored.asserted THEN "none" ELSE "assert", "Continue")
    /\ UNCHANGED cacheVars

\* ------------------------------------------------------------------------
\* getPipeline called from two threads
\* ------------------------------------------------------------------------
\* Each thread runs getPipeline in steps: the lookup, the read and the write
\* of the counter that hit() or miss() increments, and insertPipeline. The
\* callers either serialize their calls or do not synchronize at all.
Threads == {"threadA", "threadB"}

IdleThread == [pc |-> "idle", desc |-> Null, factoryOk |-> FALSE, item |-> Null, stats |-> reset]

\* Another thread is about to change mPayload in insertPipeline.
InsertPending(thread) ==
    \E other \in Threads \ {thread} : objects["threads"].thread[other].pc = "insert"

\* What mPayload.find(desc) can return to thread: the node found, or Null
\* for end(); anything when the lookup races with an insertion.
findOutcomes(thread, desc) ==
    IF InsertPending(thread)
    THEN DOMAIN mPayload \cup {Null}
    ELSE IF find(mPayload, desc) # {} THEN find(mPayload, desc) ELSE {Null}

\* What insertPipeline can make of mPayload for thread: the result of
\* emplace, or a second node for the key when two insertions race.
insertOutcomes(thread, desc, factoryOk) ==
    LET r == insertPipeline(mPayload, pipelinesCreated, desc, factoryOk)
    IN {r} \cup
       IF factoryOk /\ InsertPending(thread)
       THEN {[r EXCEPT !.payload = MapPut(mPayload, r.created,
                                          [first |-> desc,
                                           second |-> [mPipeline |-> r.created,
                                                       mTransitions |-> <<>>]]),
                       !.item = r.created]}
       ELSE {}

\* The callers decide whether they serialize their calls.
StartThreads(serialized) ==
    /\ "threads" \notin DOMAIN objects
    /\ objects' = MapPut(objects, "threads",
                         [serialized |-> serialized, started |-> 0,
                          invoked |-> [desc \in GraphicsPipelineDesc |-> 0],
                          thread |-> [thread \in Threads |-> IdleThread]])
    /\ UNCHANGED <<cacheVars, last>>

\* auto item = mPayload.find(desc); on a hit the out-parameters are set.
ThreadFind(thread, desc, factoryOk) ==
    /\ "threads" \in DOMAIN objects
    /\ objects["threads"].started < MaxThreadCalls
    /\ objects["threads"].thread[thread].pc = "idle"
    /\ objects["threads"].serialized
          => \A other \in Threads : objects["threads"].thread[other].pc = "idle"
    /\ \E item \in findOutcomes(thread, desc) :
          objects' = [objects EXCEPT
                         !["threads"].started = @ + 1,
                         !["threads"].thread[thread] =
                             [pc |-> "stats", desc |-> desc, factoryOk |-> factoryOk,
                              item |-> item, stats |-> reset]]
    /\ UNCHANGED <<cacheVars, last>>

\* mCacheStats.hit() or miss(), first half: the counters are read.
ThreadReadStats(thread) ==
    /\ "threads" \in DOMAIN objects
    /\ objects["threads"].thread[thread].pc = "stats"
    /\ objects' = [objects EXCEPT !["threads"].thread[thread].pc = "count",
                                  !["threads"].thread[thread].stats = mCacheStats]
    /\ UNCHANGED <<cacheVars, last>>

\* mCacheStats.hit() or miss(), second half: the incremented counter is
\* written; a hit returns.
ThreadCount(thread) ==
    /\ "threads" \in DOMAIN objects
    /\ objects["threads"].thread[thread].pc = "count"
    /\ LET call == objects["threads"].thread[thread] IN
          IF call.item # Null
          THEN /\ mCacheStats' = hit(call.stats)
               /\ held' = held \cup {Held(mPayload, call.item)}
               /\ objects' = [objects EXCEPT !["threads"].thread[thread] = IdleThread]
               /\ last' = Call("getPipeline", call.desc, Null, {}, thread, call.item,
                               "hit", "Continue")
          ELSE /\ mCacheStats' = miss(call.stats)
               /\ objects' = [objects EXCEPT !["threads"].thread[thread].pc = "insert"]
               /\ UNCHANGED <<held, last>>
    /\ UNCHANGED <<mPayload, descPtrOut, pipelineOut, pipelineFactoryCalls, pipelinesCreated>>
    /\ UNCHANGED <<renderPassVars, descVars, descriptorSetVars, statsVars>>

\* return insertPipeline(...)
ThreadInsert(thread) ==
    /\ "threads" \in DOMAIN objects
    /\ objects["threads"].thread[thread].pc = "insert"
    /\ LET call == objects["threads"].thread[thread] IN
          \E r \in insertOutcomes(thread, call.desc, call.factoryOk) :
             /\ pipelineFactoryCalls' = pipelineFactoryCalls + 1
             /\ mPayload' = r.payload
             /\ pipelinesCreated' = r.created
             /\ held' = IF r.status = "Continue"
                        THEN held \cup {Held(r.payload, r.item)}
                        ELSE held
             /\ objects' = [objects EXCEPT !["threads"].thread[thread] = IdleThread,
                                           !["threads"].invoked[call.desc] = @ + 1]
             /\ last' = Call("getPipeline", call.desc, Null, {}, thread, r.item,
                             "miss", r.status)
    /\ UNCHANGED <<mCacheStats, descPtrOut, pipelineOut>>
    /\ UNCHANGED <<renderPassVars, descVars, descriptorSetVars, statsVars>>

\* destroy of the cache between two calls.
ThreadsDestroyPipelineCache ==
    /\ "threads" \in DOMAIN objects
    /\ \A thread \in Threads : objects["threads"].thread[thread].pc = "idle"
    /\ DestroyPipelineCache

\* ------------------------------------------------------------------------
\* ResourceAccess
\* ------------------------------------------------------------------------
\* enum ResourceAccess: the enumerators in their order of declaration.
Unused == 0
ReadOnly == 1
Write == 2

ResourceAccess == {Unused, ReadOnly, Write}

\* Faulty UpdateAccess: the new access is stored whatever the old one is.
UpdateAccessAssigns(oldAccess, newAccess) == newAccess

\* UpdateAccess(&oldAccess, newAccess): the value of *oldAccess afterwards.
UpdateAccess(oldAccess, newAccess) ==
    IF newAccess > oldAccess THEN newAccess ELSE oldAccess

\* A ResourceAccess variable is declared with an initial value.
DeclareAccess(initial) ==
    /\ "access" \notin DOMAIN objects
    /\ objects' = MapPut(objects, "access",
                         [initial |-> initial, value |-> initial, passed |-> <<>>])
    /\ last' = Call("ResourceAccess", initial, Null, {}, "access", Null, "none", "Continue")
    /\ UNCHANGED cacheVars

\* UpdateAccess(&access, newAccess); the values passed are logged.
UpdateAccessCall(newAccess) ==
    /\ "access" \in DOMAIN objects
    /\ objects' = [objects EXCEPT !["access"].value = UpdateAccess(@, newAccess),
                                  !["access"].passed = Append(@, newAccess)]
    /\ last' = Call("UpdateAccess", newAccess, Null, {}, "access", Null, "none", "Continue")
    /\ UNCHANGED cacheVars

\* ------------------------------------------------------------------------
\* UniformsAndXfbDescriptorDesc
\* ------------------------------------------------------------------------
IMPLEMENTATION_MAX_TRANSFORM_FEEDBACK_BUFFERS == 4

kDefaultUniformBufferIndex == 0
kDefaultUniformBufferCount == 1
kMaxBufferCount == kDefaultUniformBufferCount + IMPLEMENTATION_MAX_TRANSFORM_FEEDBACK_BUFFERS

\* BufferSerial: 0 is the invalid serial of a default-constructed one.
BufferSerial == 1 .. MaxBufferSerial

\* VkDeviceSize offsets passed in; each fits in uint32_t, so the ASSERT of
\* updateTransformFeedbackBuffer passes and the cast keeps the value.
BufferOffsets == 0 .. MaxBufferOffset

XfbIndexes == 0 .. (IMPLEMENTATION_MAX_TRANSFORM_FEEDBACK_BUFFERS - 1)

\* std::max
std_max(a, b) == IF a < b THEN b ELSE a

\* UniformsAndXfbDescriptorDesc::reset(): no buffer is counted and the
\* arrays are zeroed.
uniformsReset ==
    [mBufferCount |-> 0,
     mBufferSerials |-> [index \in 0 .. (kMaxBufferCount - 1) |-> 0],
     mXfbBufferOffsets |-> [index \in XfbIndexes |-> 0]]

\* updateDefaultUniformBuffer(bufferSerial)
updateDefaultUniformBuffer(desc, bufferSerial) ==
    [desc EXCEPT !.mBufferSerials[kDefaultUniformBufferIndex] = bufferSerial,
                 !.mBufferCount = std_max(@, 1)]

\* Faulty update: the serial is written at xfbIndex, not at xfbIndex + 1.
updateTransformFeedbackBufferAtIndex(desc, xfbIndex, bufferSerial, bufferOffset) ==
    [desc EXCEPT !.mBufferSerials[xfbIndex] = bufferSerial,
                 !.mXfbBufferOffsets[xfbIndex] = bufferOffset,
                 !.mBufferCount = std_max(@, xfbIndex + 1)]

\* updateTransformFeedbackBuffer(xfbIndex, bufferSerial, bufferOffset)
updateTransformFeedbackBuffer(desc, xfbIndex, bufferSerial, bufferOffset) ==
    LET bufferIndex == xfbIndex + 1
    IN [desc EXCEPT !.mBufferSerials[bufferIndex] = bufferSerial,
                    !.mXfbBufferOffsets[xfbIndex] = bufferOffset,
                    !.mBufferCount = std_max(@, bufferIndex + 1)]

\* What was updated since the construction or the last reset.
NothingUpdated == [default |-> FALSE, xfb |-> {}]

\* UniformsAndXfbDescriptorDesc()
ConstructUniformsDesc ==
    /\ "uniformsDesc" \notin DOMAIN objects
    /\ objects' = MapPut(objects, "uniformsDesc",
                         [desc |-> uniformsReset, updated |-> NothingUpdated])
    /\ last' = Call("UniformsAndXfbDescriptorDesc", Null, Null, {}, "uniformsDesc", Null,
                    "none", "Continue")
    /\ UNCHANGED cacheVars

UniformsReset ==
    /\ "uniformsDesc" \in DOMAIN objects
    /\ objects' = [objects EXCEPT !["uniformsDesc"] =
                                     [desc |-> uniformsReset, updated |-> NothingUpdated]]
    /\ last' = Call("reset", Null, Null, {}, "uniformsDesc", Null, "none", "Continue")
    /\ UNCHANGED cacheVars

UpdateDefaultUniformBuffer(bufferSerial) ==
    /\ "uniformsDesc" \in DOMAIN objects
    /\ objects' = [objects EXCEPT
                      !["uniformsDesc"].desc = updateDefaultUniformBuffer(@, bufferSerial),
                      !["uniformsDesc"].updated.default = TRUE]
    /\ last' = Call("updateDefaultUniformBuffer", bufferSerial, Null, {}, "uniformsDesc", Null,
                    "none", "Continue")
    /\ UNCHANGED cacheVars

UpdateTransformFeedbackBuffer(xfbIndex, bufferSerial, bufferOffset) ==
    /\ "uniformsDesc" \in DOMAIN objects
    /\ objects' = [objects EXCEPT
                      !["uniformsDesc"].desc =
                          updateTransformFeedbackBuffer(@, xfbIndex, bufferSerial, bufferOffset),
                      !["uniformsDesc"].updated.xfb = @ \cup {xfbIndex}]
    /\ last' = Call("updateTransformFeedbackBuffer", bufferSerial, bufferOffset, {},
                    "uniformsDesc", xfbIndex, "none", "Continue")
    /\ UNCHANGED cacheVars

\* ------------------------------------------------------------------------
\* Specifications
\* ------------------------------------------------------------------------
\* The object caches, for runs of at most MaxCalls calls.
Next ==
    \/ /\ last.seq < MaxCalls
       /\ \E desc \in GraphicsPipelineDesc, factoryOk \in BOOLEAN : GetPipeline(desc, factoryOk)
    \/ /\ last.seq < MaxCalls
       /\ DestroyPipelineCache
    \/ /\ last.seq < MaxCalls
       /\ \E desc \in RenderPassDesc, addOps \in AttachmentOpsArray, factoryOk \in BOOLEAN :
             GetCompatibleRenderPass(desc, addOps, factoryOk)
    \/ /\ last.seq < MaxCalls
       /\ \E desc \in RenderPassDesc, attachmentOps \in AttachmentOpsArray,
             factoryOk \in BOOLEAN : GetRenderPassWithOps(desc, attachmentOps, factoryOk)
    \/ /\ last.seq < MaxCalls
       /\ DestroyRenderPassCache

Spec == Init /\ [][Next]_vars

\* The pipeline cache with the transition lists of its PipelineHelpers, for
\* runs of at most MaxTransitionCalls calls.
NextTransition ==
    \/ /\ last.seq < MaxTransitionCalls
       /\ \E desc \in GraphicsPipelineDesc, factoryOk \in BOOLEAN : GetPipeline(desc, factoryOk)
    \/ /\ last.seq < MaxTransitionCalls
       /\ \E item \in DOMAIN mPayload, bits \in GraphicsPipelineTransitionBits,
             desc \in DOMAIN mPayload, pipeline \in DOMAIN mPayload :
             AddTransition(item, bits, desc, pipeline)
    \/ /\ last.seq < MaxTransitionCalls
       /\ \E item \in DOMAIN mPayload, bits \in GraphicsPipelineTransitionBits,
             desc \in GraphicsPipelineDesc : FindTransition(item, bits, desc)

SpecTransition == Init /\ [][NextTransition]_vars

\* Two descriptors changed through their mutators and compared by
\* GraphicsPipelineTransitionMatch, for runs of at most MaxDescCalls calls.
NextDesc ==
    \/ /\ last.seq < MaxDescCalls
       /\ \E side \in DescSides : ConstructPipelineDesc(side)
    \/ /\ last.seq < MaxDescCalls
       /\ \E side \in DescSides, lineWidth \in 0 .. MaxLineWidth : UpdateLineWidth(side, lineWidth)
    \/ /\ last.seq < MaxDescCalls
       /\ \E side \in DescSides, cullMode \in 0 .. MaxCullMode : UpdateCullMode(side, cullMode)
    \/ /\ last.seq < MaxDescCalls
       /\ Match
    \/ /\ last.seq < MaxDescCalls
       /\ Compare

SpecDesc == Init /\ [][NextDesc]_vars

\* The two descriptor set caches, from construction to destruction, for runs
\* of at most MaxDescriptorSetCalls calls.
NextDescriptorSet ==
    \/ /\ last.seq < MaxDescriptorSetCalls
       /\ \E cache \in DescriptorSetCaches : ConstructDescriptorSetCache(cache)
    \/ /\ last.seq < MaxDescriptorSetCalls
       /\ \E cache \in DescriptorSetCaches, key \in DescriptorSetKeys :
             DescriptorSetGet(cache, key)
    \/ /\ last.seq < MaxDescriptorSetCalls
       /\ \E cache \in DescriptorSetCaches, key \in DescriptorSetKeys,
             descriptorSet \in VkDescriptorSet : DescriptorSetInsert(cache, key, descriptorSet)
    \/ /\ last.seq < MaxDescriptorSetCalls
       /\ \E cache \in DescriptorSetCaches : DescriptorSetClear(cache)
    \/ /\ last.seq < MaxDescriptorSetCalls
       /\ \E cache \in DescriptorSetCaches : DescriptorSetDestroy(cache)
    \/ /\ last.seq < MaxDescriptorSetCalls
       /\ \E cache \in DescriptorSetCaches : DescriptorSetDestructor(cache)

SpecDescriptorSet == Init /\ [][NextDescriptorSet]_vars

\* Two CacheStats objects under the operations of CacheStats and
\* HasCacheStats, for runs of at most MaxStatsCalls calls.
NextStats ==
    \/ /\ last.seq < MaxStatsCalls
       /\ \E object \in StatsObjects : ConstructStats(object)
    \/ /\ last.seq < MaxStatsCalls
       /\ \E object \in StatsObjects : StatsHit(object)
    \/ /\ last.seq < MaxStatsCalls
       /\ \E object \in StatsObjects : StatsMiss(object)
    \/ /\ last.seq < MaxStatsCalls
       /\ \E object \in StatsObjects, source \in StatsObjects : StatsAccumulate(object, source)
    \/ /\ last.seq < MaxStatsCalls
       /\ \E object \in StatsObjects : StatsReset(object)
    \/ /\ last.seq < MaxStatsCalls
       /\ StatsAccumulateCacheStats

SpecStats == Init /\ [][NextStats]_vars

\* The descriptor set caches looked up, filled and reporting their counters
\* to the accumulator, for runs of at most MaxReportCalls calls.
NextReport ==
    \/ /\ last.seq < MaxReportCalls
       /\ \E cache \in DescriptorSetCaches : ConstructDescriptorSetCache(cache)
    \/ /\ last.seq < MaxReportCalls
       /\ \E cache \in DescriptorSetCaches, key \in DescriptorSetKeys :
             DescriptorSetGet(cache, key)
    \/ /\ last.seq < MaxReportCalls
       /\ \E cache \in DescriptorSetCaches, key \in DescriptorSetKeys,
             descriptorSet \in VkDescriptorSet : DescriptorSetInsert(cache, key, descriptorSet)
    \/ /\ last.seq < MaxReportCalls
       /\ \E cache \in DescriptorSetCaches : AccumulateCacheStats(cache)

SpecReport == Init /\ [][NextReport]_vars

\* A RenderPassDesc under its pack, set and update operations, for runs of
\* at most MaxRenderPassDescCalls calls.
NextRenderPassDesc ==
    \/ /\ last.seq < MaxRenderPassDescCalls
       /\ ConstructRenderPassDesc
    \/ /\ last.seq < MaxRenderPassDescCalls
       /\ \E colorIndexGL \in ColorIndexGL, formatID \in FormatID :
             PackColorAttachment(colorIndexGL, formatID)
    \/ /\ last.seq < MaxRenderPassDescCalls
       /\ \E colorIndexGL \in ColorIndexGL : PackColorAttachmentGap(colorIndexGL)
    \/ /\ last.seq < MaxRenderPassDescCalls
       /\ \E formatID \in FormatID : PackDepthStencilAttachment(formatID)
    \/ /\ last.seq < MaxRenderPassDescCalls
       /\ \E logSamples \in 0 .. MaxLogSamples : SetSamples(logSamples)
    \/ /\ last.seq < MaxRenderPassDescCalls
       /\ \E isRenderToTexture \in BOOLEAN : UpdateRenderToTexture(isRenderToTexture)
    \/ /\ last.seq < MaxRenderPassDescCalls
       /\ PackDepthStencilResolveAttachment
    \/ /\ last.seq < MaxRenderPassDescCalls
       /\ \E unresolveDepth \in BOOLEAN, unresolveStencil \in BOOLEAN :
             PackDepthStencilUnresolveAttachment(unresolveDepth, unresolveStencil)
    \/ /\ last.seq < MaxRenderPassDescCalls
       /\ RemoveDepthStencilUnresolveAttachment
    \/ /\ last.seq < MaxRenderPassDescCalls
       /\ \E mode \in BOOLEAN : SetWriteControlMode(mode)

SpecRenderPassDesc == Init /\ [][NextRenderPassDesc]_vars

\* The scissor of the descriptors under its mutators, for runs of at most
\* MaxScissorCalls calls.
NextScissor ==
    \/ /\ last.seq < MaxScissorCalls
       /\ \E side \in DescSides : ConstructPipelineDesc(side)
    \/ /\ last.seq < MaxScissorCalls
       /\ \E side \in DescSides, scissor \in ScissorRects : SetScissor(side, scissor)
    \/ /\ last.seq < MaxScissorCalls
       /\ \E side \in DescSides, scissor \in ScissorRects : UpdateScissor(side, scissor)
    \/ /\ last.seq < MaxScissorCalls
       /\ \E side \in DescSides : SetDynamicScissor(side)

SpecScissor == Init /\ [][NextScissor]_vars

\* A cache of reference-counted objects and the bindings of its callers, for
\* runs of at most MaxRefCountedCalls calls.
NextRefCounted ==
    \/ /\ last.seq < MaxRefCountedCalls
       /\ ConstructRefCountedCache
    \/ /\ last.seq < MaxRefCountedCalls
       /\ \E desc \in RefCountedDescs, binding \in Bindings : GetRefCounted(desc, binding)
    \/ /\ last.seq < MaxRefCountedCalls
       /\ \E binding \in Bindings : BindingReset(binding)
    \/ /\ last.seq < MaxRefCountedCalls
       /\ DestroyRefCountedCache

SpecRefCounted == Init /\ [][NextRefCounted]_vars

\* A PackedAttribDesc and at most MaxSetBitFieldCalls stores into its fields.
NextSetBitField ==
    \/ /\ last.seq < MaxSetBitFieldCalls + 1
       /\ ConstructPackedAttribDesc
    \/ /\ last.seq < MaxSetBitFieldCalls + 1
       /\ \E field \in DOMAIN PackedAttribDescFields, rhsType \in RhsTypes :
             \E value \in ValuesOf(rhsType) : StoreBitField(field, rhsType, value)

SpecSetBitField == Init /\ [][NextSetBitField]_vars

\* Two threads calling getPipeline on one cache, serialized or not, for runs
\* in which at most MaxThreadCalls calls are started.
NextThreads ==
    \/ \E serialized \in BOOLEAN : StartThreads(serialized)
    \/ \E thread \in Threads, desc \in GraphicsPipelineDesc, factoryOk \in BOOLEAN :
          ThreadFind(thread, desc, factoryOk)
    \/ \E thread \in Threads : ThreadReadStats(thread)
    \/ \E thread \in Threads : ThreadCount(thread)
    \/ \E thread \in Threads : ThreadInsert(thread)
    \/ /\ last.seq < MaxThreadCalls
       /\ ThreadsDestroyPipelineCache

SpecThreads == Init /\ [][NextThreads]_vars

\* A FenceNV and a Sync over mock implementations, for runs of at most
\* MaxFenceCalls calls.
NextFence ==
    \/ /\ last.seq < MaxFenceCalls
       /\ NewFenceNV
    \/ /\ last.seq < MaxFenceCalls
       /\ SetFenceNV
    \/ /\ last.seq < MaxFenceCalls
       /\ \E status \in BOOLEAN : TestFenceNV(status)
    \/ /\ last.seq < MaxFenceCalls
       /\ DeleteFenceNV
    \/ /\ last.seq < MaxFenceCalls
       /\ NewSync
    \/ /\ last.seq < MaxFenceCalls
       /\ AddRefSync
    \/ /\ last.seq < MaxFenceCalls
       /\ ReleaseSync

SpecFence == Init /\ [][NextFence]_vars

\* One ResourceAccess variable and at most MaxAccessCalls calls of
\* UpdateAccess on it.
NextAccess ==
    \/ /\ last.seq < MaxAccessCalls + 1
       /\ \E initial \in ResourceAccess : DeclareAccess(initial)
    \/ /\ last.seq < MaxAccessCalls + 1
       /\ \E newAccess \in ResourceAccess : UpdateAccessCall(newAccess)

SpecAccess == Init /\ [][NextAccess]_vars

\* One UniformsAndXfbDescriptorDesc and at most MaxUniformsCalls calls on it.
NextUniforms ==
    \/ /\ last.seq < MaxUniformsCalls + 1
       /\ ConstructUniformsDesc
    \/ /\ last.seq < MaxUniformsCalls + 1
       /\ UniformsReset
    \/ /\ last.seq < MaxUniformsCalls + 1
       /\ \E bufferSerial \in BufferSerial : UpdateDefaultUniformBuffer(bufferSerial)
    \/ /\ last.seq < MaxUniformsCalls + 1
       /\ \E xfbIndex \in XfbIndexes, bufferSerial \in BufferSerial,
             bufferOffset \in BufferOffsets :
             UpdateTransformFeedbackBuffer(xfbIndex, bufferSerial, bufferOffset)

SpecUniforms == Init /\ [][NextUniforms]_vars

\* ------------------------------------------------------------------------
\* Properties
\* ------------------------------------------------------------------------
\* The variables led by the call counter, which every call advances: a step
\* leaves callVars unchanged exactly when it leaves vars unchanged.
callVars == <<last.seq, vars>>

\* The step is a call of op.
Called(op) == last'.seq = last.seq + 1 /\ last'.op = op

\* The nodes of the pipeline cache whose stored key equals desc.
Stored(desc) == {item \in DOMAIN mPayload : mPayload[item].first = desc}

\* The render passes stored in the bucket of desc.
Bucket(desc) ==
    IF desc \in DOMAIN mRenderPassPayload
    THEN {mRenderPassPayload[desc][ops] : ops \in DOMAIN mRenderPassPayload[desc]}
    ELSE {}

\* stats after h more hits and m more misses.
Counted(stats, h, m) ==
    [mHitCount |-> stats.mHitCount + h, mMissCount |-> stats.mMissCount + m]

\* C1: cache idempotence.  A get of an absent key whose factory succeeds is
\* a miss that advances the counters by exactly one miss; a get of the same
\* key right after it is a hit that advances them by exactly one hit and
\* returns the same object (and, for getPipeline, the same stored-key
\* pointer, which designates a key equal to the one requested).
C1_CacheIdempotence ==
    [][ /\ (Called("getPipeline") /\ Stored(last'.desc) = {} /\ last'.status = "Continue")
            => /\ last'.result = "miss"
               /\ mCacheStats' = Counted(mCacheStats, 0, 1)
        /\ (Called("getPipeline") /\ last.op = "getPipeline" /\ last.result = "miss"
               /\ last.status = "Continue" /\ last'.desc = last.desc)
            => /\ last'.result = "hit"
               /\ pipelineOut' = pipelineOut
               /\ descPtrOut' = descPtrOut
               /\ descPtrOut' \in DOMAIN mPayload'
               /\ mPayload'[descPtrOut'].first = last'.desc
               /\ mCacheStats' = Counted(mCacheStats, 1, 0)
        /\ (Called("getCompatibleRenderPass") /\ last.op = "getCompatibleRenderPass"
               /\ last.result = "miss" /\ last.status = "Continue" /\ last'.desc = last.desc)
            => /\ last'.result = "hit"
               /\ renderPassOut' = renderPassOut
               /\ mCompatibleRenderPassCacheStats' = Counted(mCompatibleRenderPassCacheStats, 1, 0)
        /\ (Called("getRenderPassWithOps") /\ last.op = "getRenderPassWithOps"
               /\ last.result = "miss" /\ last.status = "Continue" /\ last'.desc = last.desc
               /\ last'.ops = last.ops)
            => /\ last'.result = "hit"
               /\ renderPassOut' = renderPassOut
               /\ mRenderPassWithOpsCacheStats' = Counted(mRenderPassWithOpsCacheStats, 1, 0)
      ]_vars

\* C1 witness: one miss that created the only entry, then one hit on it.
C1_Witness ==
    /\ last.op = "getPipeline"
    /\ last.result = "hit"
    /\ mCacheStats = Counted(reset, 1, 1)
    /\ pipelineFactoryCalls = 1
    /\ Cardinality(DOMAIN mPayload) = 1
    /\ Stored(last.desc) = {pipelineOut}

\* C2: a get of a key that is present (getPipeline, getCompatibleRenderPass)
\* returns a cached object of that key, counts exactly one hit and no miss,
\* leaves the cache entries unchanged and does not invoke the factory.
C2_HitLeavesCacheUnchanged ==
    [][ /\ (Called("getPipeline") /\ Stored(last'.desc) # {})
            => /\ last'.result = "hit"
               /\ pipelineOut' \in Stored(last'.desc)
               /\ descPtrOut' = pipelineOut'
               /\ mCacheStats' = Counted(mCacheStats, 1, 0)
               /\ mPayload' = mPayload
               /\ pipelineFactoryCalls' = pipelineFactoryCalls
               /\ pipelinesCreated' = pipelinesCreated
        /\ (Called("getCompatibleRenderPass") /\ last'.desc \in DOMAIN mRenderPassPayload)
            => /\ last'.result = "hit"
               /\ renderPassOut' \in Bucket(last'.desc)
               /\ mCompatibleRenderPassCacheStats' = Counted(mCompatibleRenderPassCacheStats, 1, 0)
               /\ mRenderPassPayload' = mRenderPassPayload
               /\ renderPassFactoryCalls' = renderPassFactoryCalls
               /\ renderPassesCreated' = renderPassesCreated
      ]_vars

\* C2 witness: getCompatibleRenderPass missed once and then hit.
C2_Witness ==
    /\ last.op = "getCompatibleRenderPass"
    /\ last.result = "hit"
    /\ mCompatibleRenderPassCacheStats = Counted(reset, 1, 1)
    /\ renderPassOut \in Bucket(last.desc)

\* C3: a getPipeline of an absent key counts exactly one miss and no hit and
\* invokes the factory exactly once; when the factory succeeds the cache
\* holds exactly one new entry, its key equals the requested descriptor, the
\* entries it had are untouched, and the pointers returned are those of the
\* new entry.
C3_MissInsertsOneEntry ==
    [][ (Called("getPipeline") /\ Stored(last'.desc) = {})
            => /\ last'.result = "miss"
               /\ mCacheStats' = Counted(mCacheStats, 0, 1)
               /\ pipelineFactoryCalls' = pipelineFactoryCalls + 1
               /\ last'.status = "Continue"
                    => /\ Cardinality(DOMAIN mPayload') = Cardinality(DOMAIN mPayload) + 1
                       /\ \A item \in DOMAIN mPayload :
                            item \in DOMAIN mPayload' /\ mPayload'[item] = mPayload[item]
                       /\ pipelineOut' \in (DOMAIN mPayload') \ (DOMAIN mPayload)
                       /\ descPtrOut' = pipelineOut'
                       /\ mPayload'[descPtrOut'].first = last'.desc
      ]_vars

\* C3 witness: a successful miss that added an entry to a non-empty cache.
C3_Witness ==
    /\ last.op = "getPipeline"
    /\ last.result = "miss"
    /\ last.status = "Continue"
    /\ Cardinality(DOMAIN mPayload) >= 2
    /\ Stored(last.desc) = {pipelineOut}

\* C4: when the factory fails on a miss the failure is returned and no entry
\* is inserted (the cache maps are unchanged, no empty bucket either); a get
\* of the same key right after it is again a counted miss and invokes the
\* factory again.
C4_FactoryFailureLeavesCacheUnchanged ==
    [][ /\ (Called("getPipeline") /\ Stored(last'.desc) = {} /\ last'.status = "Stop")
            => /\ last'.result = "miss"
               /\ mPayload' = mPayload
               /\ pipelinesCreated' = pipelinesCreated
        /\ ((Called("getCompatibleRenderPass") \/ Called("getRenderPassWithOps"))
               /\ last'.status = "Stop")
            => /\ last'.result = "miss"
               /\ mRenderPassPayload' = mRenderPassPayload
               /\ renderPassesCreated' = renderPassesCreated
        /\ (Called("getPipeline") /\ last.op = "getPipeline" /\ last.status = "Stop"
               /\ last'.desc = last.desc)
            => /\ last'.result = "miss"
               /\ mCacheStats' = Counted(mCacheStats, 0, 1)
               /\ pipelineFactoryCalls' = pipelineFactoryCalls + 1
        /\ (Called("getCompatibleRenderPass") /\ last.op = "getCompatibleRenderPass"
               /\ last.status = "Stop" /\ last'.desc = last.desc)
            => /\ last'.result = "miss"
               /\ mCompatibleRenderPassCacheStats' = Counted(mCompatibleRenderPassCacheStats, 0, 1)
               /\ renderPassFactoryCalls' = renderPassFactoryCalls + 1
      ]_vars

\* C4 witness: the factory failed twice in a row on getPipeline and the
\* cache holds nothing.
C4_Witness ==
    /\ last.op = "getPipeline"
    /\ last.status = "Stop"
    /\ last.seq = 2
    /\ pipelineFactoryCalls = 2
    /\ pipelinesCreated = 0
    /\ mPayload = EmptyMap

\* C5: no eviction.  Every step other than the teardown of a cache keeps
\* each of its entries, under the same key and with the same object.
C5_NoEviction ==
    [][ /\ ~Called("destroyPipelineCache")
            => \A item \in DOMAIN mPayload :
                  /\ item \in DOMAIN mPayload'
                  /\ mPayload'[item].first = mPayload[item].first
                  /\ mPayload'[item].second.mPipeline = mPayload[item].second.mPipeline
        /\ ~Called("destroyRenderPassCache")
            => \A desc \in DOMAIN mRenderPassPayload :
                  /\ desc \in DOMAIN mRenderPassPayload'
                  /\ \A ops \in DOMAIN mRenderPassPayload[desc] :
                        /\ ops \in DOMAIN mRenderPassPayload'[desc]
                        /\ mRenderPassPayload'[desc][ops] = mRenderPassPayload[desc][ops]
      ]_vars

\* C5 witness: the entry inserted first is hit after a later insertion.
C5_Witness ==
    /\ last.op = "getPipeline"
    /\ last.result = "hit"
    /\ Cardinality(DOMAIN mPayload) >= 2
    /\ \A item \in DOMAIN mPayload : pipelineOut <= item

\* C6: the pipeline cache never holds two entries with equal keys, and a
\* getPipeline call creates a pipeline exactly when its key is absent and the
\* factory succeeds, adding as many entries as it created pipelines (so,
\* counted from the empty cache, successful factory calls and entries agree).
C6_OneEntryPerDescriptor ==
    /\ [](\A a \in DOMAIN mPayload, b \in DOMAIN mPayload :
             mPayload[a].first = mPayload[b].first => a = b)
    /\ [][ Called("getPipeline")
             => LET made == IF Stored(last'.desc) = {} /\ last'.status = "Continue"
                            THEN 1 ELSE 0
                IN /\ pipelinesCreated' = pipelinesCreated + made
                   /\ Cardinality(DOMAIN mPayload') = Cardinality(DOMAIN mPayload) + made
         ]_vars

\* C6 witness: two descriptors requested, one of them twice; two entries,
\* two pipelines created.
C6_Witness ==
    /\ Cardinality(DOMAIN mPayload) = 2
    /\ pipelinesCreated = 2
    /\ mCacheStats.mHitCount >= 1
    /\ mCacheStats.mMissCount = 2

\* C7: getCompatibleRenderPass on a desc that has an outer entry is a hit
\* whatever ops its inner entries have: it succeeds, returns a render pass
\* the factory created and that is stored in that bucket, and creates
\* nothing.
C7_CompatibleHitsAnyOps ==
    [][ (Called("getCompatibleRenderPass") /\ last'.desc \in DOMAIN mRenderPassPayload)
            => /\ last'.status = "Continue"
               /\ last'.result = "hit"
               /\ \E ops \in DOMAIN mRenderPassPayload[last'.desc] :
                     renderPassOut' = mRenderPassPayload[last'.desc][ops]
               /\ renderPassOut' \in 1 .. renderPassesCreated
               /\ renderPassesCreated' = renderPassesCreated
               /\ DOMAIN mRenderPassPayload' = DOMAIN mRenderPassPayload
               /\ \A desc \in DOMAIN mRenderPassPayload :
                     mRenderPassPayload'[desc] = mRenderPassPayload[desc]
      ]_vars

\* C7 witness: a compatible hit in a bucket holding two different ops.
C7_Witness ==
    /\ last.op = "getCompatibleRenderPass"
    /\ last.result = "hit"
    /\ Cardinality(DOMAIN mRenderPassPayload[last.desc]) >= 2

\* C8: getRenderPassWithOps hits exactly when both the outer key and the
\* inner key are present; a successful miss adds exactly the inner entry
\* (desc, ops), in the existing bucket when there is one and in a new bucket
\* otherwise, and every entry stored before is still there, unchanged.
C8_WithOpsTwoLevelMatch ==
    [][ Called("getRenderPassWithOps")
            => LET desc == last'.desc
                   ops == last'.ops
                   before == IF desc \in DOMAIN mRenderPassPayload
                             THEN DOMAIN mRenderPassPayload[desc] ELSE {}
               IN /\ last'.result = "hit" <=> ops \in before
                  /\ last'.result = "hit"
                       => /\ renderPassOut' = mRenderPassPayload[desc][ops]
                          /\ mRenderPassPayload' = mRenderPassPayload
                  /\ (last'.result = "miss" /\ last'.status = "Continue")
                       => /\ DOMAIN mRenderPassPayload' = (DOMAIN mRenderPassPayload) \cup {desc}
                          /\ DOMAIN mRenderPassPayload'[desc] = before \cup {ops}
                          /\ \A o \in before :
                                mRenderPassPayload'[desc][o] = mRenderPassPayload[desc][o]
                          /\ \A d \in (DOMAIN mRenderPassPayload) \ {desc} :
                                mRenderPassPayload'[d] = mRenderPassPayload[d]
                          /\ renderPassOut' = mRenderPassPayload'[desc][ops]
                          /\ renderPassOut' \notin UNION {Bucket(d) : d \in DOMAIN mRenderPassPayload}
      ]_vars

\* C8 witness: a miss on the ops alone added a second inner entry to an
\* existing bucket.
C8_Witness ==
    /\ last.op = "getRenderPassWithOps"
    /\ last.result = "miss"
    /\ last.status = "Continue"
    /\ Cardinality(DOMAIN mRenderPassPayload[last.desc]) = 2
    /\ renderPassOut = mRenderPassPayload[last.desc][last.ops]

\* The transitions of list mTransitions that have bit set bits and whose
\* descriptor agrees with desc on every word flagged in bits.
Matching(mTransitions, bits, desc) ==
    {i \in 1 .. Len(mTransitions) :
        /\ mTransitions[i].bits = bits
        /\ \A b \in bits : mPayload[mTransitions[i].desc].first[b] = desc[b]}

\* C9: findTransition(bits, desc) returns true exactly when the list holds a
\* transition with the same bit set whose descriptor equals desc on every
\* flagged word; the pipeline returned is the target of such a transition,
\* and a descriptor that differs only outside the flagged words gets the
\* same answer.
C9_FindTransitionMatchesFlaggedWords ==
    last.op = "findTransition"
        => LET mTransitions == mPayload[last.helper].second.mTransitions
               matching == Matching(mTransitions, last.bits, last.desc)
           IN /\ last.result = "found" <=> matching # {}
              /\ last.result = "found"
                   => \E i \in matching : pipelineOut = mTransitions[i].target
              /\ \A other \in GraphicsPipelineDesc :
                    (\A b \in last.bits : other[b] = last.desc[b])
                        => findTransition(mPayload, mTransitions, last.bits, other)
                             = findTransition(mPayload, mTransitions, last.bits, last.desc)

\* C9 witness: a probe was matched by a transition whose descriptor differs
\* from the probed one outside the flagged words.
C9_Witness ==
    /\ last.op = "findTransition"
    /\ last.result = "found"
    /\ last.bits # {}
    /\ \E i \in Matching(mPayload[last.helper].second.mTransitions, last.bits, last.desc) :
          mPayload[mPayload[last.helper].second.mTransitions[i].desc].first # last.desc

\* C10 as stated: for every recorded transition (S, A, P) of a helper,
\* findTransition(S, B) returns P for every B equal to A on the words
\* flagged in S, and returns nothing for every B2 that differs from A on a
\* flagged word when no other recorded transition matches.
C10_RoundTripAsStated ==
    \A item \in DOMAIN mPayload :
        LET mTransitions == mPayload[item].second.mTransitions IN
        \A i \in 1 .. Len(mTransitions), B \in GraphicsPipelineDesc :
            LET r == findTransition(mPayload, mTransitions, mTransitions[i].bits, B)
                matching == Matching(mTransitions, mTransitions[i].bits, B)
            IN /\ i \in matching => (r.found /\ r.target = mTransitions[i].target)
               /\ (i \notin matching /\ matching \ {i} = {}) => ~r.found

\* C10 amended: for every recorded transition (S, A, P) of a helper,
\* findTransition(S, B) finds a pipeline for every B equal to A on the words
\* flagged in S, and that pipeline is P when no transition recorded earlier
\* on the helper matches (S, B) too (it is the target of the earliest
\* matching transition); it returns nothing for every B2 that differs from A
\* on a flagged word when no other recorded transition matches.
C10_RoundTrip ==
    \A item \in DOMAIN mPayload :
        LET mTransitions == mPayload[item].second.mTransitions IN
        \A i \in 1 .. Len(mTransitions), B \in GraphicsPipelineDesc :
            LET r == findTransition(mPayload, mTransitions, mTransitions[i].bits, B)
                matching == Matching(mTransitions, mTransitions[i].bits, B)
            IN /\ i \in matching
                    => /\ r.found
                       /\ \E j \in matching :
                             /\ \A k \in matching : j <= k
                             /\ r.target = mTransitions[j].target
                       /\ (\A j \in matching : j >= i) => r.target = mTransitions[i].target
               /\ (i \notin matching /\ matching \ {i} = {}) => ~r.found

\* C10 witness: a probe was matched by the second transition of a helper and
\* by no other, and its target was returned.
C10_Witness ==
    /\ last.op = "findTransition"
    /\ last.result = "found"
    /\ Len(mPayload[last.helper].second.mTransitions) >= 2
    /\ Matching(mPayload[last.helper].second.mTransitions, last.bits, last.desc) = {2}
    /\ pipelineOut = mPayload[last.helper].second.mTransitions[2].target

\* C11: a transition recorded under the bits of a line-width-only change is
\* never matched by a probe whose change also touched cull mode: the probe's
\* bit set then strictly contains the recorded one and the match fails,
\* whatever the line-width words are.
C11_LineWidthTransitionNotMatchedWithCullMode ==
    (/\ last.op = "match"
     /\ updated["A"] = {"lineWidth"}
     /\ {"lineWidth", "cullMode"} \subseteq updated["B"])
    => /\ transitions["A"] \subseteq transitions["B"]
       /\ transitions["A"] # transitions["B"]
       /\ matched = FALSE

\* C11 witness: the two line-width words are equal and not zero, the probe
\* also updated cull mode, and the match failed.
C11_Witness ==
    /\ last.op = "match"
    /\ updated["A"] = {"lineWidth"}
    /\ updated["B"] = {"lineWidth", "cullMode"}
    /\ pipelineDescs["A"][LineWidthOffset \div kGraphicsPipelineDirtyBitBytes] = 1
    /\ pipelineDescs["B"][LineWidthOffset \div kGraphicsPipelineDirtyBitBytes] = 1
    /\ matched = FALSE

\* The dirty bits whose 4-byte range holds the whole lineWidth field.
HoldingLineWidth ==
    {dirtyBit \in PackedDirtyBits :
        /\ dirtyBit * kGraphicsPipelineDirtyBitBytes <= LineWidthOffset
        /\ LineWidthOffset + kFloatSize <= (dirtyBit + 1) * kGraphicsPipelineDirtyBitBytes}

\* C12: updateLineWidth adds to the transition bit set exactly the one dirty
\* bit whose 4-byte range holds the lineWidth field, stores the line width in
\* that range and changes no word of the descriptor outside it (nor the
\* other descriptor and its bits).
C12_UpdateLineWidthSetsOneDirtyBit ==
    [][ Called("updateLineWidth")
            => LET side == last'.helper IN
                  /\ Cardinality(HoldingLineWidth) = 1
                  /\ transitions'[side] = transitions[side] \cup HoldingLineWidth
                  /\ \A dirtyBit \in HoldingLineWidth :
                        pipelineDescs'[side][dirtyBit] = last'.target
                  /\ \A dirtyBit \in PackedDirtyBits \ HoldingLineWidth :
                        pipelineDescs'[side][dirtyBit] = pipelineDescs[side][dirtyBit]
                  /\ DOMAIN pipelineDescs' = DOMAIN pipelineDescs
                  /\ \A other \in DOMAIN pipelineDescs \ {side} :
                        /\ pipelineDescs'[other] = pipelineDescs[other]
                        /\ transitions'[other] = transitions[other]
      ]_callVars

\* C12 witness: a first updateLineWidth to a non-zero width left one dirty
\* bit set and one word of the descriptor changed.
C12_Witness ==
    /\ last.op = "updateLineWidth"
    /\ updated[last.helper] = {"lineWidth"}
    /\ last.target = 1
    /\ Cardinality(transitions[last.helper]) = 1
    /\ Cardinality({dirtyBit \in PackedDirtyBits :
                       pipelineDescs[last.helper][dirtyBit] # 0}) = 1

\* The words (4-byte ranges) in which two descriptors differ.
Diff(descA, descB) == {dirtyBit \in DirtyBits : descA[dirtyBit] # descB[dirtyBit]}

\* Every transition recorded on the helper of node item was recorded for a
\* descriptor probed from that pipeline: with the key pointer and the helper
\* of one cache entry, and under a bit set that contains every word in which
\* that entry's key differs from the key of item.
ProperlyRecorded(item) ==
    \A i \in 1 .. Len(mPayload[item].second.mTransitions) :
        LET transition == mPayload[item].second.mTransitions[i] IN
           /\ transition.target = transition.desc
           /\ Diff(mPayload[transition.desc].first, mPayload[item].first)
                  \subseteq transition.bits

\* C13: the transition cache agrees with the object cache.  When the bit
\* sets recorded on the current pipeline and the probed bit set contain
\* every word in which the probed descriptor differs from the key of the
\* current pipeline (exactly, or overcounted), a pipeline that findTransition
\* returns is the one the pipeline cache stores under a key equal to the
\* probed descriptor; a probe that finds nothing returns no pipeline.
C13_TransitionCacheAgreesWithObjectCache ==
    [][ (/\ Called("findTransition")
         /\ ProperlyRecorded(last'.helper)
         /\ Diff(last'.desc, mPayload[last'.helper].first) \subseteq last'.bits)
            => IF last'.result = "found"
               THEN pipelineOut' \in Stored(last'.desc)
               ELSE pipelineOut' = pipelineOut
      ]_callVars

\* C13 witness: a probe with an overcounted bit set found the pipeline of
\* the probed descriptor, another entry than the current pipeline.
C13_Witness ==
    /\ last.op = "findTransition"
    /\ last.result = "found"
    /\ ProperlyRecorded(last.helper)
    /\ Diff(last.desc, mPayload[last.helper].first) \subseteq last.bits
    /\ Diff(last.desc, mPayload[last.helper].first) # last.bits
    /\ pipelineOut \in Stored(last.desc)
    /\ pipelineOut # last.helper

\* C14: undercounting causes incorrect hits.  With the transitions of the
\* current pipeline recorded properly, a probe whose bit set omits a word in
\* which the probed descriptor differs from the key of the current pipeline
\* and that finds a transition returns a pipeline whose stored key is not
\* equal to the probed descriptor.
C14_UndercountedHitIsWrong ==
    [][ (/\ Called("findTransition")
         /\ ProperlyRecorded(last'.helper)
         /\ ~(Diff(last'.desc, mPayload[last'.helper].first) \subseteq last'.bits)
         /\ last'.result = "found")
            => /\ pipelineOut' \in DOMAIN mPayload
               /\ mPayload[pipelineOut'].first # last'.desc
      ]_callVars

\* C14 witness: an undercounted probe with a non-empty bit set hit a properly
\* recorded transition and got another pipeline, stored under another key
\* than the probed descriptor.
C14_Witness ==
    /\ last.op = "findTransition"
    /\ last.result = "found"
    /\ ProperlyRecorded(last.helper)
    /\ ~(Diff(last.desc, mPayload[last.helper].first) \subseteq last.bits)
    /\ last.bits # {}
    /\ pipelineOut # last.helper
    /\ mPayload[pipelineOut].first # last.desc

\* C15: the key pointer and the helper pointer that getPipeline returned
\* stay valid and keep designating the same descriptor value and the same
\* helper, whatever is inserted later, until the cache is torn down.
C15_ReturnedPointersStayValid ==
    \A h \in held :
        /\ h.descPtr \in DOMAIN mPayload
        /\ mPayload[h.descPtr].first = h.desc
        /\ h.pipeline \in DOMAIN mPayload
        /\ mPayload[h.pipeline].second.mPipeline = h.mPipeline

\* C15 witness: three entries, the last one just inserted, the pointers
\* returned for the first two still held.
C15_Witness ==
    /\ last.op = "getPipeline"
    /\ last.result = "miss"
    /\ Cardinality(held) = 3
    /\ Cardinality(DOMAIN mPayload) = 3

\* C16: addTransition appends unconditionally.  Every call makes the
\* transition list of its helper one element longer, the new last element
\* being the (bits, desc, target) passed, also when an identical transition
\* is recorded already; the elements recorded before, the other helpers and
\* the keys are unchanged.
C16_AddTransitionAppends ==
    [][ Called("addTransition")
            => LET old == mPayload[last'.helper].second.mTransitions
                   new == mPayload'[last'.helper].second.mTransitions
               IN /\ Len(new) = Len(old) + 1
                  /\ \A i \in 1 .. Len(old) : new[i] = old[i]
                  /\ new[Len(new)] = [bits |-> last'.bits, desc |-> last'.desc,
                                       target |-> last'.target]
                  /\ DOMAIN mPayload' = DOMAIN mPayload
                  /\ \A item \in DOMAIN mPayload :
                        /\ mPayload'[item].first = mPayload[item].first
                        /\ mPayload'[item].second.mPipeline = mPayload[item].second.mPipeline
                        /\ item # last'.helper
                              => mPayload'[item].second.mTransitions
                                    = mPayload[item].second.mTransitions
      ]_callVars

\* C16 witness: the same transition was added twice and is recorded twice.
C16_Witness ==
    /\ last.op = "addTransition"
    /\ LET recorded == mPayload[last.helper].second.mTransitions IN
          /\ Len(recorded) = 2
          /\ recorded[1] = recorded[2]

\* C17: a descriptor set cache must be empty when it is destructed.  The
\* destructor fails its assertion exactly when the cache still holds an
\* entry; an insert leaves the cache holding one, clear and destroy leave it
\* empty, and get leaves the entries as they are.
C17_DestructorAssertsEmpty ==
    [][ LET cache == last'.helper IN
           /\ Called("destructor")
                => (last'.result = "assert"
                       <=> DOMAIN descriptorSetCaches[cache].mPayload # {})
           /\ Called("insert") => DOMAIN descriptorSetCaches'[cache].mPayload # {}
           /\ (Called("clear") \/ Called("destroy"))
                => DOMAIN descriptorSetCaches'[cache].mPayload = {}
           /\ Called("get")
                => descriptorSetCaches'[cache].mPayload = descriptorSetCaches[cache].mPayload
      ]_callVars

\* C17 witness: a cache that was given an entry and looked up was destructed
\* without clear or destroy, and the assertion failed.
C17_Witness ==
    /\ last.op = "destructor"
    /\ last.seq = 4
    /\ last.result = "assert"
    /\ descriptorSetCaches[last.helper].lifetime = "aborted"
    /\ descriptorSetCaches[last.helper].mCacheStats = [mHitCount |-> 1, mMissCount |-> 0]

\* C18: the hit and miss counters of a CacheStats never decrease under
\* hit(), miss() and accumulate(); a counter gets smaller only in a call
\* that runs reset() on its object, which leaves both counters of that
\* object at zero; and a newly constructed CacheStats has both at zero.
C18_CountersOnlyDecreaseByReset ==
    [][ /\ Called("CacheStats")
            => /\ last'.helper \notin DOMAIN cacheStats
               /\ cacheStats'[last'.helper].mHitCount = 0
               /\ cacheStats'[last'.helper].mMissCount = 0
        /\ \A object \in DOMAIN cacheStats :
             /\ object \in DOMAIN cacheStats'
             /\ (Called("hit") \/ Called("miss") \/ Called("accumulate"))
                  => /\ cacheStats'[object].mHitCount >= cacheStats[object].mHitCount
                     /\ cacheStats'[object].mMissCount >= cacheStats[object].mMissCount
             /\ (\/ cacheStats'[object].mHitCount < cacheStats[object].mHitCount
                 \/ cacheStats'[object].mMissCount < cacheStats[object].mMissCount)
                  => /\ Called("reset") \/ Called("accumulateCacheStats")
                     /\ last'.helper = object
                     /\ cacheStats'[object].mHitCount = 0
                     /\ cacheStats'[object].mMissCount = 0
      ]_callVars

\* C18 witness: counters that hit(), miss() and accumulate() had raised
\* were set back to zero by reset().
C18_Witness ==
    /\ last.op = "reset"
    /\ last.seq = 6
    /\ cacheStats[last.helper] = [mHitCount |-> 0, mMissCount |-> 0]
    /\ \E object \in DOMAIN cacheStats :
          cacheStats[object].mHitCount = 1 /\ cacheStats[object].mMissCount = 1

\* C19 as stated: after accumulate of S into T, the counters of T have grown
\* by those S had and the counters of S are both zero.
C19_AccumulateResetsSourceAsStated ==
    [][ (Called("accumulate") /\ last'.helper # last'.target)
            => /\ cacheStats'[last'.helper] =
                     Counted(cacheStats[last'.helper], cacheStats[last'.target].mHitCount,
                             cacheStats[last'.target].mMissCount)
               /\ cacheStats'[last'.target] = [mHitCount |-> 0, mMissCount |-> 0]
      ]_callVars

\* C19: CacheStats::accumulate of S into T makes the counters of T grow by
\* those of S and leaves S as it is; the source is reset to zero by
\* HasCacheStats::accumulateCacheStats, after which the accumulator's
\* counters have grown by those the cache had and the cache's are both zero.
C19_AccumulateAddsReportResets ==
    [][ /\ (Called("accumulate") /\ last'.helper # last'.target)
            => /\ cacheStats'[last'.helper] =
                     Counted(cacheStats[last'.helper], cacheStats[last'.target].mHitCount,
                             cacheStats[last'.target].mMissCount)
               /\ cacheStats'[last'.target] = cacheStats[last'.target]
        /\ Called("accumulateCacheStats")
            => /\ cacheStats'["T"] =
                     Counted(cacheStats["T"], cacheStats["S"].mHitCount,
                             cacheStats["S"].mMissCount)
               /\ cacheStats'["S"] = [mHitCount |-> 0, mMissCount |-> 0]
      ]_callVars

\* C19 witness: S held one hit and one miss when it was accumulated into T,
\* and still holds them.
C19_Witness ==
    /\ last.op = "accumulate"
    /\ last.helper = "T"
    /\ last.target = "S"
    /\ cacheStats["S"] = [mHitCount |-> 1, mMissCount |-> 1]
    /\ cacheStats["T"] = [mHitCount |-> 1, mMissCount |-> 1]

\* C20: no double counting.  For each cache the aggregator's totals plus
\* the cache's current counters are the hits and misses that ever occurred,
\* whatever the interleaving of lookups and reports; and a report that
\* follows a report of the same cache with no lookup between them adds
\* nothing to the totals.
C20_NoDoubleCounting ==
    /\ [](\A cache \in DOMAIN descriptorSetCaches :
             Counted(totals[cache], descriptorSetCaches[cache].mCacheStats.mHitCount,
                     descriptorSetCaches[cache].mCacheStats.mMissCount) = occurred[cache])
    /\ [][ (/\ Called("accumulateCacheStats")
             /\ last.op = "accumulateCacheStats"
             /\ last'.helper = last.helper)
                => totals' = totals
         ]_callVars

\* C20 witness: a cache that had a miss and a hit reported them; the totals
\* hold both and the cache's counters are back at zero.
C20_Witness ==
    /\ last.op = "accumulateCacheStats"
    /\ occurred[last.helper] = [mHitCount |-> 1, mMissCount |-> 1]
    /\ totals[last.helper] = occurred[last.helper]
    /\ descriptorSetCaches[last.helper].mCacheStats = [mHitCount |-> 0, mMissCount |-> 0]

\* The GL color indices of rp last packed as kind ("enabled" or "gap").
PackedAs(rp, kind) == {colorIndexGL \in DOMAIN rp.packedGL : rp.packedGL[colorIndexGL] = kind}

\* The highest GL color index packed on rp.
HighestPacked(rp) ==
    CHOOSE colorIndexGL \in DOMAIN rp.packedGL :
        \A other \in DOMAIN rp.packedGL : other <= colorIndexGL

\* The attachments of rp that are not color attachments.
OtherAttachments(rp) ==
    Cardinality(rp.mColorResolveAttachmentMask)
        + (IF hasDepthStencilAttachment(rp) THEN 1 ELSE 0)
        + (IF hasDepthStencilResolveAttachment(rp) THEN 1 ELSE 0)

C22_PackColorAttachmentRoundTrip ==
    [][ Called("packColorAttachment")
            => LET before == objects["renderPassDesc"]
                   after == objects'["renderPassDesc"]
               IN /\ isColorAttachmentEnabled(after, last'.desc)
                  /\ operatorIndex(after, last'.desc) = last'.target
                  /\ \A other \in ColorIndexGL \ {last'.desc} :
                        /\ isColorAttachmentEnabled(after, other)
                              = isColorAttachmentEnabled(before, other)
                        /\ operatorIndex(after, other) = operatorIndex(before, other)
      ]_callVars

\* C22 witness: an index was packed as enabled below another enabled index
\* that holds a different format, and next to an index packed as a gap.
C22_Witness ==
    /\ last.op = "packColorAttachment"
    /\ PackedAs(objects["renderPassDesc"], "gap") # {}
    /\ \E other \in PackedAs(objects["renderPassDesc"], "enabled") :
          /\ other > last.desc
          /\ operatorIndex(objects["renderPassDesc"], other) # last.target
          /\ operatorIndex(objects["renderPassDesc"], last.desc) = last.target

\* The flags of mAttachmentFormats.back() that the mutator op sets or clears;
\* no flag for the other operations.
OwnFlags(op) ==
    CASE op = "updateRenderToTexture" -> {kIsRenderToTexture}
      [] op = "packDepthStencilResolveAttachment" -> {kResolveDepthStencilFlag}
      [] op = "packDepthStencilUnresolveAttachment" -> {kUnresolveDepthFlag, kUnresolveStencilFlag}
      [] op = "removeDepthStencilUnresolveAttachment" -> {kUnresolveDepthFlag, kUnresolveStencilFlag}
      [] op = "setWriteControlMode" -> {kSrgbWriteControlFlag}
      [] OTHER -> {}

\* C25: a call that sets or clears a flag kept in the last format byte leaves
\* the other flags, the sample count, the color attachment range and the
\* format operator[] returns for every attachment index as they were, the
\* depth/stencil format that shares the byte with the flags included.
C25_FlagMutatorsChangeOnlyTheirBits ==
    [][ (last'.seq = last.seq + 1 /\ OwnFlags(last'.op) # {})
            => LET before == objects["renderPassDesc"]
                   after == objects'["renderPassDesc"]
               IN /\ \A flag \in RenderPassFlags \ OwnFlags(last'.op) :
                        TestFlag(back(after.mAttachmentFormats), flag)
                            = TestFlag(back(before.mAttachmentFormats), flag)
                  /\ samples(after) = samples(before)
                  /\ colorAttachmentRange(after) = colorAttachmentRange(before)
                  /\ \A index \in AttachmentIndex :
                        operatorIndex(after, index) = operatorIndex(before, index)
      ]_callVars

\* C25 witness: with eight color slots in the range the depth/stencil format
\* is in the last byte, and a flag was set in that byte next to it.
C25_Witness ==
    /\ OwnFlags(last.op) # {}
    /\ colorAttachmentRange(objects["renderPassDesc"]) = IMPLEMENTATION_MAX_DRAW_BUFFERS
    /\ hasDepthStencilAttachment(objects["renderPassDesc"])
    /\ \E flag \in OwnFlags(last.op) :
          TestFlag(back(objects["renderPassDesc"].mAttachmentFormats), flag)

BoundTo(cache, handle) == {binding \in Bindings : cache.bindings[binding] = handle}
HeldByCache(cache, handle) == \E desc \in DOMAIN cache.mPayload : cache.mPayload[desc] = handle

\* C26: an object a cache handed out is not destroyed while a binding
\* references it or the cache holds it; it is destroyed only in a call that
\* drops a reference to it and leaves none.
C26_SharedUntilLastReference ==
    /\ [](\A name \in {"refCountedCache"} \cap DOMAIN objects :
             \A handle \in DOMAIN objects[name].handles :
                (BoundTo(objects[name], handle) # {} \/ HeldByCache(objects[name], handle))
                    => objects[name].handles[handle].alive)
    /\ [][ \A name \in {"refCountedCache"} \cap DOMAIN objects :
              \A handle \in DOMAIN objects[name].handles :
                 (objects[name].handles[handle].alive /\ ~objects'[name].handles[handle].alive)
                    => /\ Called("reset") \/ Called("getSampler") \/ Called("destroy")
                       /\ BoundTo(objects[name], handle) # {} \/ HeldByCache(objects[name], handle)
                       /\ BoundTo(objects'[name], handle) = {}
                       /\ ~HeldByCache(objects'[name], handle)
         ]_callVars

\* C26 witness: an object shared by two bindings outlived the destroy of its
\* cache and the reset of one binding, and was destroyed by the reset of the other.
C26_Witness ==
    /\ last.op = "reset"
    /\ last.seq = 6
    /\ objects["refCountedCache"].mCacheStats = [mHitCount |-> 1, mMissCount |-> 1]
    /\ objects["refCountedCache"].mPayload = EmptyMap
    /\ \A binding \in Bindings : objects["refCountedCache"].bindings[binding] = Null
    /\ \E handle \in DOMAIN objects["refCountedCache"].handles :
          ~objects["refCountedCache"].handles[handle].alive

\* The values a field of width bits can hold.
FitsIn(bits) == 0 .. (2 ^ bits - 1)

C28_SerializedFactoryOncePerKeyAsStated ==
    ("threads" \in DOMAIN objects /\ objects["threads"].serialized)
        => \A desc \in GraphicsPipelineDesc : objects["threads"].invoked[desc] <= 1

\* C28: when the calls on a cache are serialized, the factory is invoked
\* only for a key the cache does not store, and no key is stored twice; a
\* key sees a second invocation only after a failure or a destroy.
C28_SerializedFactoryOnlyForAbsentKey ==
    /\ []( ("threads" \in DOMAIN objects /\ objects["threads"].serialized)
             => \A desc \in GraphicsPipelineDesc : Cardinality(Stored(desc)) <= 1 )
    /\ [][ ("threads" \in DOMAIN objects /\ objects["threads"].serialized)
             => \A desc \in GraphicsPipelineDesc :
                   objects'["threads"].invoked[desc] # objects["threads"].invoked[desc]
                      => /\ Stored(desc) = {}
                         /\ pipelineFactoryCalls' = pipelineFactoryCalls + 1
         ]_callVars

\* C28 witness: without synchronization two threads looked up the same
\* absent key before either inserted it; both recorded a miss and both
\* invoked the factory, which created two pipelines for the one key stored.
C28_Witness ==
    /\ "threads" \in DOMAIN objects
    /\ ~objects["threads"].serialized
    /\ \A thread \in Threads : objects["threads"].thread[thread].pc = "idle"
    /\ last.seq = 2
    /\ last.result = "miss"
    /\ mCacheStats = [mHitCount |-> 0, mMissCount |-> 2]
    /\ pipelineFactoryCalls = 2
    /\ pipelinesCreated = 2
    /\ \E desc \in GraphicsPipelineDesc :
          /\ objects["threads"].invoked[desc] = 2
          /\ Cardinality(Stored(desc)) = 1

C30_ImplementationDestroyedOnce ==
    /\ []( /\ "fenceNV" \in DOMAIN objects
              => objects["fenceNV"].destroyCalls = (IF objects["fenceNV"].deleted THEN 1 ELSE 0)
           /\ "sync" \in DOMAIN objects
              => /\ objects["sync"].destroyCalls = (IF objects["sync"].deleted THEN 1 ELSE 0)
                 /\ objects["sync"].mRefCount > 0 => objects["sync"].destroyCalls = 0 )
    /\ [][ /\ ("fenceNV" \in DOMAIN objects
                  /\ objects'["fenceNV"].destroyCalls # objects["fenceNV"].destroyCalls)
              => Called("delete")
           /\ ("sync" \in DOMAIN objects
                  /\ objects'["sync"].destroyCalls # objects["sync"].destroyCalls)
              => Called("release") /\ objects["sync"].mRefCount = 1
         ]_callVars

\* C30 witness: a FenceNV was deleted, and a Sync with two references saw the
\* first released without destroy() and the second released with it.
C30_Witness ==
    /\ DOMAIN objects = {"fenceNV", "sync"}
    /\ last.op = "release"
    /\ last.seq = 7
    /\ objects["fenceNV"].deleted
    /\ objects["fenceNV"].destroyCalls = 1
    /\ objects["sync"].deleted
    /\ objects["sync"].destroyCalls = 1

\* C31: every bucket of the render pass cache holds at least one render
\* pass, and no call ends in the failure of ASSERT(!innerCache.empty()).
C31_NoEmptyInnerCache ==
    /\ \A desc \in DOMAIN mRenderPassPayload : DOMAIN mRenderPassPayload[desc] # {}
    /\ last.result # "assert"

\* C31 witness: after a call whose factory failed, getCompatibleRenderPass
\* found a bucket and returned a render pass of it.
C31_Witness ==
    /\ last.op = "getCompatibleRenderPass"
    /\ last.result = "hit"
    /\ last.seq = 3
    /\ renderPassFactoryCalls = 2
    /\ renderPassesCreated = 1
    /\ \E ops \in DOMAIN mRenderPassPayload[last.desc] :
          mRenderPassPayload[last.desc][ops] = renderPassOut

\* The number of lookups a CacheStats object has counted.
Lookups(stats) == stats.mHitCount + stats.mMissCount

\* C32: a getPipeline call adds exactly one to hits plus misses of the
\* pipeline cache, a getCompatibleRenderPass call exactly one to those of the
\* compatible render pass statistics; a call whose factory failed added it to
\* the misses, although it stored nothing.
C32_EveryLookupCountedOnce ==
    [][ /\ Called("getPipeline")
           => /\ Lookups(mCacheStats') = Lookups(mCacheStats) + 1
              /\ last'.status = "Stop"
                    => /\ mCacheStats'.mMissCount = mCacheStats.mMissCount + 1
                       /\ mPayload' = mPayload
        /\ Called("getCompatibleRenderPass")
           => /\ Lookups(mCompatibleRenderPassCacheStats')
                    = Lookups(mCompatibleRenderPassCacheStats) + 1
              /\ last'.status = "Stop"
                    => /\ mCompatibleRenderPassCacheStats'.mMissCount
                             = mCompatibleRenderPassCacheStats.mMissCount + 1
                       /\ mRenderPassPayload' = mRenderPassPayload
      ]_callVars

\* C32 witness: two getPipeline calls and a getCompatibleRenderPass call
\* whose factories failed: the miss counts are 2 and 1, the caches are empty.
C32_Witness ==
    /\ last.op = "getCompatibleRenderPass"
    /\ last.status = "Stop"
    /\ last.seq = 3
    /\ mCacheStats = [mHitCount |-> 0, mMissCount |-> 2]
    /\ mCompatibleRenderPassCacheStats = [mHitCount |-> 0, mMissCount |-> 1]
    /\ mCacheStats.mMissCount > Cardinality(DOMAIN mPayload)
    /\ mCompatibleRenderPassCacheStats.mMissCount > Cardinality(DOMAIN mRenderPassPayload)

\* C33: findTransition returns the target of the matching transition that
\* was added first; when no transition matches it returns false and leaves
\* *pipelineOut as it was; it never changes a transition list.
C33_FindTransitionReturnsEarliestMatch ==
    [][ Called("findTransition")
            => LET mTransitions == mPayload[last'.helper].second.mTransitions
                   matching == Matching(mTransitions, last'.bits, last'.desc)
               IN /\ mPayload' = mPayload
                  /\ IF matching = {}
                     THEN last'.result = "notfound" /\ pipelineOut' = pipelineOut
                     ELSE /\ last'.result = "found"
                          /\ \E i \in matching :
                                /\ \A j \in matching : i <= j
                                /\ pipelineOut' = mTransitions[i].target
      ]_callVars

\* C33 witness: two recorded transitions with different targets matched the
\* probe, and the target of the one added first was returned.
C33_Witness ==
    /\ last.op = "findTransition"
    /\ last.result = "found"
    /\ LET mTransitions == mPayload[last.helper].second.mTransitions
           matching == Matching(mTransitions, last.bits, last.desc)
       IN /\ matching = {1, 2}
          /\ mTransitions[1].target # mTransitions[2].target
          /\ pipelineOut = mTransitions[1].target

\* The bytes of the descriptor that dirty bit dirtyBit stands for.
BytesOf(dirtyBit) ==
    (dirtyBit * kGraphicsPipelineDirtyBitBytes)
        .. (dirtyBit * kGraphicsPipelineDirtyBitBytes + kGraphicsPipelineDirtyBitBytes - 1)

\* C34: the dirty bits tile the descriptor.  Its size is a multiple of the 4
\* bytes of a dirty bit, there are size / 4 dirty bits and at most 64, every
\* byte lies in the range of exactly one dirty bit, and every bit that a
\* transition bit set can hold, and every bit a mutator has set, stands for
\* a word inside the descriptor.
C34_DirtyBitsTileTheDescriptor ==
    /\ kGraphicsPipelineDescSumOfSizes % kGraphicsPipelineDirtyBitBytes = 0
    /\ kNumGraphicsPipelineDirtyBits * kGraphicsPipelineDirtyBitBytes
          = kGraphicsPipelineDescSumOfSizes
    /\ kNumGraphicsPipelineDirtyBits <= 64
    /\ \A offset \in 0 .. (kGraphicsPipelineDescSumOfSizes - 1) :
          Cardinality({dirtyBit \in PackedDirtyBits : offset \in BytesOf(dirtyBit)}) = 1
    /\ \A dirtyBit \in PackedDirtyBits :
          BytesOf(dirtyBit) \subseteq 0 .. (kGraphicsPipelineDescSumOfSizes - 1)
    /\ \A side \in DOMAIN pipelineDescs :
          /\ transitions[side] \subseteq PackedDirtyBits
          /\ \A dirtyBit \in transitions[side] : dirtyBit \in DOMAIN pipelineDescs[side]

\* C34 witness: GraphicsPipelineTransitionMatch read the word of the line
\* width, bytes 136 to 139 of the 252, in two descriptors that flag it, and
\* found it equal.
C34_Witness ==
    /\ last.op = "match"
    /\ matched
    /\ transitions["A"] = {DirtyBitOfByte(LineWidthOffset)}
    /\ transitions["B"] = {DirtyBitOfByte(LineWidthOffset)}
    /\ BytesOf(DirtyBitOfByte(LineWidthOffset)) = 136 .. 139
    /\ pipelineDescs["A"][DirtyBitOfByte(LineWidthOffset)] = 1
    /\ pipelineDescs["B"][DirtyBitOfByte(LineWidthOffset)] = 1

\* What getPipeline returned to a caller as the pair (key pointer, helper)
\* that transition records.
ReturnedAs(transition) ==
    {h \in held : h.descPtr = transition.desc /\ h.pipeline = transition.target}

\* C35: a transition recorded with a key pointer and a helper that one
\* getPipeline call returned designates live entries.  Its desc is a node of
\* the cache whose key is still the descriptor it was returned for, its
\* target is the helper stored under that key and still has the pipeline it
\* was returned with; a findTransition that finds such a transition returns
\* a helper of the cache.
C35_TransitionsReferToLiveEntries ==
    /\ [](\A item \in DOMAIN mPayload :
             \A i \in 1 .. Len(mPayload[item].second.mTransitions) :
                LET transition == mPayload[item].second.mTransitions[i] IN
                \A h \in ReturnedAs(transition) :
                   /\ transition.desc \in DOMAIN mPayload
                   /\ mPayload[transition.desc].first = h.desc
                   /\ transition.target \in Stored(h.desc)
                   /\ mPayload[transition.target].second.mPipeline = h.mPipeline)
    /\ [][ (/\ Called("findTransition")
            /\ last'.result = "found"
            /\ \A i \in 1 .. Len(mPayload[last'.helper].second.mTransitions) :
                  ReturnedAs(mPayload[last'.helper].second.mTransitions[i]) # {})
              => /\ pipelineOut' \in DOMAIN mPayload'
                 /\ \E h \in held : h.pipeline = pipelineOut'
                                      /\ mPayload'[pipelineOut'].second.mPipeline = h.mPipeline
         ]_callVars

\* C35 witness: with three entries in the cache, findTransition on one
\* helper found its only transition, recorded with the pair getPipeline
\* returned for another entry, and returned that entry's helper.
C35_Witness ==
    /\ last.op = "findTransition"
    /\ last.result = "found"
    /\ last.seq = 5
    /\ Cardinality(DOMAIN mPayload) = 3
    /\ Len(mPayload[last.helper].second.mTransitions) = 1
    /\ ReturnedAs(mPayload[last.helper].second.mTransitions[1]) # {}
    /\ pipelineOut = mPayload[last.helper].second.mTransitions[1].target
    /\ pipelineOut # last.helper

\* What C36 says of every call but insert: a get leaves the map as it is,
\* is a hit exactly for a key that is present, returns the set stored under
\* it and counts one hit, or counts one miss; after clear the map is empty.
GetNeverInserts ==
    LET cache == last'.helper
        key == last'.desc
        before == descriptorSetCaches[cache]
        after == descriptorSetCaches'[cache]
    IN /\ Called("get")
            => /\ after.mPayload = before.mPayload
               /\ last'.result = "hit" <=> key \in DOMAIN before.mPayload
               /\ last'.result = "hit"
                     => /\ descriptorSetOut' = before.mPayload[key]
                        /\ after.mCacheStats = Counted(before.mCacheStats, 1, 0)
               /\ last'.result = "miss"
                     => after.mCacheStats = Counted(before.mCacheStats, 0, 1)
       /\ Called("clear") => after.mPayload = EmptyMap

\* C36 as stated: moreover, after insert(key, set) the key is present and a
\* get returns that set.
C36_GetAfterInsertReturnsThatSetAsStated ==
    [][ /\ GetNeverInserts
        /\ Called("insert")
              => /\ last'.desc \in DOMAIN descriptorSetCaches'[last'.helper].mPayload
                 /\ descriptorSetCaches'[last'.helper].mPayload[last'.desc] = last'.target
      ]_callVars

\* C36: moreover, after insert(key, set) the key is present and a get
\* returns that set, unless the cache is a DescriptorSetCache that held the
\* key already: then a get returns the set it held.
C36_GetNeverInsertsAndFindsWhatIsStored ==
    [][ /\ GetNeverInserts
        /\ Called("insert")
              => LET cache == last'.helper
                     key == last'.desc
                     before == descriptorSetCaches[cache].mPayload
                     after == descriptorSetCaches'[cache].mPayload
                 IN /\ key \in DOMAIN after
                    /\ after[key] = IF cache = "DescriptorSetCache" /\ key \in DOMAIN before
                                    THEN before[key]
                                    ELSE last'.target
      ]_callVars

\* C36 witness: on a new DriverUniformsDescriptorSetCache a get missed, and
\* after the insert of the key the get of the same key hit and returned the
\* set inserted.
C36_Witness ==
    /\ last.op = "get"
    /\ last.result = "hit"
    /\ last.seq = 4
    /\ last.helper = "DriverUniformsDescriptorSetCache"
    /\ descriptorSetCaches[last.helper].mCacheStats = [mHitCount |-> 1, mMissCount |-> 1]
    /\ DOMAIN descriptorSetCaches[last.helper].mPayload = {last.desc}
    /\ descriptorSetOut = descriptorSetCaches[last.helper].mPayload[last.desc]

\* C37: an insert into a DescriptorSetCache with a key it already holds
\* leaves the whole map as it was, so the first set inserted for the key
\* stays, and a later get of the key returns the set the map held before
\* that insert; the map holds one set for each key.
C37_FirstInsertedSetWins ==
    [][ LET cache == last'.helper
            key == last'.desc
            before == descriptorSetCaches[cache].mPayload
            after == descriptorSetCaches'[cache].mPayload
        IN /\ (Called("insert") /\ cache = "DescriptorSetCache" /\ key \in DOMAIN before)
                 => after = before
           /\ (Called("insert") /\ cache = "DescriptorSetCache")
                 => /\ DOMAIN after = DOMAIN before \cup {key}
                    /\ \A other \in DOMAIN before : after[other] = before[other]
           /\ (Called("get") /\ cache = "DescriptorSetCache" /\ last'.result = "hit")
                 => /\ last.op = "insert" /\ last.helper = cache /\ last.desc = key
                         /\ last.target # before[key]
                       => descriptorSetOut' # last.target
                    /\ descriptorSetOut' = before[key]
      ]_callVars

\* C37 witness: a DescriptorSetCache that held a set for a key was given
\* another set for the same key and still holds the first one, alone.
C37_Witness ==
    /\ last.op = "insert"
    /\ last.seq = 3
    /\ last.helper = "DescriptorSetCache"
    /\ DOMAIN descriptorSetCaches[last.helper].mPayload = {last.desc}
    /\ descriptorSetCaches[last.helper].mPayload[last.desc] # last.target

\* The value of a variable that starts at initial after UpdateAccess was
\* called with the values of passed in the order given by order.
RECURSIVE AccessAfter(_, _, _)
AccessAfter(initial, passed, order) ==
    IF order = <<>>
    THEN initial
    ELSE UpdateAccess(AccessAfter(initial, passed, SubSeq(order, 1, Len(order) - 1)),
                      passed[order[Len(order)]])

\* The orders in which n calls can be made.
Orders(n) == {order \in [1 .. n -> 1 .. n] : \A i, j \in 1 .. n : order[i] = order[j] => i = j}

\* The greatest of a non-empty set of ResourceAccess values.
Greatest(values) == CHOOSE m \in values : \A v \in values : v <= m

\* C38: after any sequence of UpdateAccess calls the variable holds the
\* greatest (Unused < ReadOnly < Write) of its initial value and the values
\* passed, whatever the order the calls are made in; no call lowers it, and
\* a call repeated right after itself changes nothing.
C38_UpdateAccessKeepsTheMaximum ==
    /\ []("access" \in DOMAIN objects
            => LET access == objects["access"] IN
                  /\ access.value = Greatest({access.initial}
                                                \cup {access.passed[i] : i \in DOMAIN access.passed})
                  /\ \A order \in Orders(Len(access.passed)) :
                        AccessAfter(access.initial, access.passed, order) = access.value)
    /\ [][Called("UpdateAccess")
            => /\ objects'["access"].value >= objects["access"].value
               /\ (last.op = "UpdateAccess" /\ last.desc = last'.desc)
                     => objects'["access"].value = objects["access"].value
         ]_callVars

\* C38 witness: a variable declared Unused was passed Write, then ReadOnly,
\* then ReadOnly again, and holds Write.
C38_Witness ==
    /\ last.op = "UpdateAccess"
    /\ objects["access"].initial = Unused
    /\ objects["access"].passed = <<Write, ReadOnly, ReadOnly>>
    /\ objects["access"].value = Write

\* C39: since the last reset the buffer count is at least 1 if the default
\* uniform buffer was set and at least i + 2 for every transform feedback
\* index i updated; no update lowers the buffer count; and
\* updateTransformFeedbackBuffer(i, serial, offset) changes, of the two
\* arrays, serial slot i + 1 and offset slot i only, so the default uniform
\* buffer serial in slot 0 stays.
C39_BufferCountCoversWhatWasUpdated ==
    /\ []("uniformsDesc" \in DOMAIN objects
            => LET object == objects["uniformsDesc"] IN
                  /\ object.updated.default => object.desc.mBufferCount >= 1
                  /\ \A i \in object.updated.xfb : object.desc.mBufferCount >= i + 2)
    /\ [][LET before == objects["uniformsDesc"].desc
              after == objects'["uniformsDesc"].desc
              i == last'.target
          IN /\ (Called("updateDefaultUniformBuffer") \/ Called("updateTransformFeedbackBuffer"))
                   => after.mBufferCount >= before.mBufferCount
             /\ Called("updateTransformFeedbackBuffer")
                   => /\ after.mBufferSerials[i + 1] = last'.desc
                      /\ after.mXfbBufferOffsets[i] = last'.ops
                      /\ \A slot \in DOMAIN before.mBufferSerials :
                            slot # i + 1 => after.mBufferSerials[slot] = before.mBufferSerials[slot]
                      /\ \A slot \in DOMAIN before.mXfbBufferOffsets :
                            slot # i => after.mXfbBufferOffsets[slot] = before.mXfbBufferOffsets[slot]
                      /\ after.mBufferSerials[kDefaultUniformBufferIndex]
                            = before.mBufferSerials[kDefaultUniformBufferIndex]
         ]_callVars

\* C39 witness: after the default uniform buffer and transform feedback
\* buffer 1 were set, transform feedback buffer 0 was set with another
\* serial: three buffers are counted and slot 0 still holds the default
\* uniform buffer serial.
C39_Witness ==
    /\ last.op = "updateTransformFeedbackBuffer"
    /\ last.seq = 4
    /\ last.target = 0
    /\ objects["uniformsDesc"].updated = [default |-> TRUE, xfb |-> {0, 1}]
    /\ objects["uniformsDesc"].desc.mBufferCount = 3
    /\ objects["uniformsDesc"].desc.mBufferSerials[0] \notin {0, last.desc}
    /\ objects["uniformsDesc"].desc.mBufferSerials[1] = last.desc
    /\ objects["uniformsDesc"].desc.mXfbBufferOffsets[0] = last.ops

====
